---- MODULE Spec2Model ----
(***************************************************************************)
(* Replay verification of the typing game: the seeded word scheduler       *)
(* (word-utils.ts), the live play engine (GameEngine, WordManager) and the *)
(* server actions getGameToken / submitScore (routes/play/+page.server.ts).*)
(*                                                                         *)
(* Strings are sequences of characters.  A kana character is written by    *)
(* an upper-case ASCII name ("NE" for the kana ne, "xYA" for small ya,     *)
(* "xTU" for small tsu, "NN" for the moraic n); a romaji character is a    *)
(* lower-case letter.  A 32-bit word is the pair <<hi, lo>> of its 16-bit  *)
(* halves, so that every intermediate value stays inside TLC's integers.   *)
(***************************************************************************)
EXTENDS Integers, Sequences, FiniteSets, TLC

(***************************************************************************)
(* 32-bit arithmetic of createPRNG (Math.imul, ^, |, >>>, + with ToInt32). *)
(***************************************************************************)
Half == 256 * 256

RECURSIVE BitXor(_, _)
BitXor(a, b) ==
  IF a = 0 THEN b
  ELSE IF b = 0 THEN a
  ELSE ((a + b) % 2) + 2 * BitXor(a \div 2, b \div 2)

RECURSIVE BitOr(_, _)
BitOr(a, b) ==
  IF a = 0 THEN b
  ELSE IF b = 0 THEN a
  ELSE (IF a % 2 = 1 \/ b % 2 = 1 THEN 1 ELSE 0) + 2 * BitOr(a \div 2, b \div 2)

RECURSIVE Pow2(_)
Pow2(k) == IF k = 0 THEN 1 ELSE 2 * Pow2(k - 1)

Xor32(x, y) == <<BitXor(x[1], y[1]), BitXor(x[2], y[2])>>

\* x | c for a constant c below 2^16
OrLow(x, c) == <<x[1], BitOr(x[2], c)>>

\* x >>> k for 0 < k < 16
Shr32(x, k) ==
  <<x[1] \div Pow2(k), (x[2] \div Pow2(k)) + (x[1] % Pow2(k)) * Pow2(16 - k)>>

Add32(x, y) ==
  LET lo == x[2] + y[2]
  IN  <<(x[1] + y[1] + lo \div Half) % Half, lo % Half>>

\* the 32-bit product <<hi, lo>> of two 16-bit numbers, by 8-bit limbs
Mul16(a, b) ==
  LET p1 == a * (b \div 256)
      p0 == a * (b % 256)
      lo == (p1 % 256) * 256 + p0
  IN  <<(p1 \div 256) + lo \div Half, lo % Half>>

\* Math.imul: the low 32 bits of the product
Imul(x, y) ==
  LET ll == Mul16(x[2], y[2])
      hl == Mul16(x[1], y[2])
      lh == Mul16(x[2], y[1])
  IN  <<(ll[1] + hl[2] + lh[2]) % Half, ll[2]>>

\* the number seed as a 32-bit word (seed is a non-negative integer below 2^31)
Word32(seed) == <<seed \div Half, seed % Half>>

\* seed += 0x6d2b79f5
Golden == <<27947, 31221>>

\* the generator's state after one call
PrngAdvance(s) == Add32(s, Golden)

\* the 32-bit numerator of the value one call returns, given the state after
\* the call: the call returns PrngOutput / 4294967296
PrngOutput(s) ==
  LET t1 == Imul(Xor32(s, Shr32(s, 15)), OrLow(s, 1))
      t2 == Xor32(t1, Add32(t1, Imul(Xor32(t1, Shr32(t1, 7)), OrLow(t1, 61))))
  IN  Xor32(t2, Shr32(t2, 14))

\* Math.floor(prng() * n) for 0 < n < 2^15, where prng() returned out / 2^32
ScaleIndex(out, n) == (out[1] * n + (out[2] * n) \div Half) \div Half

(***************************************************************************)
(* word-utils.ts: GAME_CONFIG, the kana table, tokenize, getValidPatterns. *)
(***************************************************************************)
BASE_SCORE_PER_CHAR == 5
\* 20 * 0.05 = 1 in exact arithmetic (COMBO_MULTIPLIER is the double 0.05)
COMBO_DIVISOR == 20
PERFECT_SCORE_BONUS == 20
DEFAULT_TIME == 60
MAX_TIME == 90

\* KanaEngine.table
KanaTable ==
  <<"A">> :> <<<<"a">>>> @@
  <<"I">> :> <<<<"i">>, <<"y", "i">>>> @@
  <<"U">> :> <<<<"u">>, <<"w", "u">>, <<"w", "h", "u">>>> @@
  <<"E">> :> <<<<"e">>>> @@
  <<"O">> :> <<<<"o">>>> @@
  <<"KA">> :> <<<<"k", "a">>, <<"c", "a">>>> @@
  <<"KI">> :> <<<<"k", "i">>>> @@
  <<"KU">> :> <<<<"k", "u">>, <<"c", "u">>, <<"q", "u">>>> @@
  <<"KE">> :> <<<<"k", "e">>>> @@
  <<"KO">> :> <<<<"k", "o">>, <<"c", "o">>>> @@
  <<"SA">> :> <<<<"s", "a">>>> @@
  <<"SI">> :> <<<<"s", "h", "i">>, <<"s", "i">>, <<"c", "i">>>> @@
  <<"SU">> :> <<<<"s", "u">>>> @@
  <<"SE">> :> <<<<"s", "e">>, <<"c", "e">>>> @@
  <<"SO">> :> <<<<"s", "o">>>> @@
  <<"TA">> :> <<<<"t", "a">>>> @@
  <<"TI">> :> <<<<"c", "h", "i">>, <<"t", "i">>>> @@
  <<"TU">> :> <<<<"t", "s", "u">>, <<"t", "u">>>> @@
  <<"TE">> :> <<<<"t", "e">>>> @@
  <<"TO">> :> <<<<"t", "o">>>> @@
  <<"NA">> :> <<<<"n", "a">>>> @@
  <<"NI">> :> <<<<"n", "i">>>> @@
  <<"NU">> :> <<<<"n", "u">>>> @@
  <<"NE">> :> <<<<"n", "e">>>> @@
  <<"NO">> :> <<<<"n", "o">>>> @@
  <<"HA">> :> <<<<"h", "a">>>> @@
  <<"HI">> :> <<<<"h", "i">>>> @@
  <<"HU">> :> <<<<"f", "u">>, <<"h", "u">>>> @@
  <<"HE">> :> <<<<"h", "e">>>> @@
  <<"HO">> :> <<<<"h", "o">>>> @@
  <<"MA">> :> <<<<"m", "a">>>> @@
  <<"MI">> :> <<<<"m", "i">>>> @@
  <<"MU">> :> <<<<"m", "u">>>> @@
  <<"ME">> :> <<<<"m", "e">>>> @@
  <<"MO">> :> <<<<"m", "o">>>> @@
  <<"YA">> :> <<<<"y", "a">>>> @@
  <<"YU">> :> <<<<"y", "u">>>> @@
  <<"YO">> :> <<<<"y", "o">>>> @@
  <<"RA">> :> <<<<"r", "a">>>> @@
  <<"RI">> :> <<<<"r", "i">>>> @@
  <<"RU">> :> <<<<"r", "u">>>> @@
  <<"RE">> :> <<<<"r", "e">>>> @@
  <<"RO">> :> <<<<"r", "o">>>> @@
  <<"WA">> :> <<<<"w", "a">>>> @@
  <<"WO">> :> <<<<"w", "o">>>> @@
  <<"NN">> :> <<<<"n", "n">>, <<"x", "n">>, <<"n">>>> @@
  <<"GA">> :> <<<<"g", "a">>>> @@
  <<"GI">> :> <<<<"g", "i">>>> @@
  <<"GU">> :> <<<<"g", "u">>>> @@
  <<"GE">> :> <<<<"g", "e">>>> @@
  <<"GO">> :> <<<<"g", "o">>>> @@
  <<"ZA">> :> <<<<"z", "a">>>> @@
  <<"ZI">> :> <<<<"j", "i">>, <<"z", "i">>>> @@
  <<"ZU">> :> <<<<"z", "u">>>> @@
  <<"ZE">> :> <<<<"z", "e">>>> @@
  <<"ZO">> :> <<<<"z", "o">>>> @@
  <<"DA">> :> <<<<"d", "a">>>> @@
  <<"DI">> :> <<<<"j", "i">>, <<"d", "i">>>> @@
  <<"DU">> :> <<<<"z", "u">>, <<"d", "u">>>> @@
  <<"DE">> :> <<<<"d", "e">>>> @@
  <<"DO">> :> <<<<"d", "o">>>> @@
  <<"BA">> :> <<<<"b", "a">>>> @@
  <<"BI">> :> <<<<"b", "i">>>> @@
  <<"BU">> :> <<<<"b", "u">>>> @@
  <<"BE">> :> <<<<"b", "e">>>> @@
  <<"BO">> :> <<<<"b", "o">>>> @@
  <<"PA">> :> <<<<"p", "a">>>> @@
  <<"PI">> :> <<<<"p", "i">>>> @@
  <<"PU">> :> <<<<"p", "u">>>> @@
  <<"PE">> :> <<<<"p", "e">>>> @@
  <<"PO">> :> <<<<"p", "o">>>> @@
  <<"xA">> :> <<<<"x", "a">>, <<"l", "a">>>> @@
  <<"xI">> :> <<<<"x", "i">>, <<"l", "i">>>> @@
  <<"xU">> :> <<<<"x", "u">>, <<"l", "u">>>> @@
  <<"xE">> :> <<<<"x", "e">>, <<"l", "e">>>> @@
  <<"xO">> :> <<<<"x", "o">>, <<"l", "o">>>> @@
  <<"xTU">> :> <<<<"x", "t", "u">>, <<"l", "t", "u">>, <<"t", "s", "u">>>> @@
  <<"xYA">> :> <<<<"x", "y", "a">>, <<"l", "y", "a">>>> @@
  <<"xYU">> :> <<<<"x", "y", "u">>, <<"l", "y", "u">>>> @@
  <<"xYO">> :> <<<<"x", "y", "o">>, <<"l", "y", "o">>>> @@
  <<"xWA">> :> <<<<"x", "w", "a">>, <<"l", "w", "a">>>> @@
  <<"KI", "xYA">> :> <<<<"k", "y", "a">>, <<"k", "i", "x", "y", "a">>>> @@
  <<"KI", "xYU">> :> <<<<"k", "y", "u">>, <<"k", "i", "x", "y", "u">>>> @@
  <<"KI", "xYO">> :> <<<<"k", "y", "o">>, <<"k", "i", "x", "y", "o">>>> @@
  <<"SI", "xYA">> :> <<<<"s", "h", "a">>, <<"s", "y", "a">>>> @@
  <<"SI", "xYU">> :> <<<<"s", "h", "u">>, <<"s", "y", "u">>>> @@
  <<"SI", "xYO">> :> <<<<"s", "h", "o">>, <<"s", "y", "o">>>> @@
  <<"TI", "xYA">> :> <<<<"c", "h", "a">>, <<"t", "y", "a">>>> @@
  <<"TI", "xYU">> :> <<<<"c", "h", "u">>, <<"t", "y", "u">>>> @@
  <<"TI", "xYO">> :> <<<<"c", "h", "o">>, <<"t", "y", "o">>>> @@
  <<"NI", "xYA">> :> <<<<"n", "y", "a">>>> @@
  <<"NI", "xYU">> :> <<<<"n", "y", "u">>>> @@
  <<"NI", "xYO">> :> <<<<"n", "y", "o">>>> @@
  <<"HI", "xYA">> :> <<<<"h", "y", "a">>>> @@
  <<"HI", "xYU">> :> <<<<"h", "y", "u">>>> @@
  <<"HI", "xYO">> :> <<<<"h", "y", "o">>>> @@
  <<"MI", "xYA">> :> <<<<"m", "y", "a">>>> @@
  <<"MI", "xYU">> :> <<<<"m", "y", "u">>>> @@
  <<"MI", "xYO">> :> <<<<"m", "y", "o">>>> @@
  <<"RI", "xYA">> :> <<<<"r", "y", "a">>>> @@
  <<"RI", "xYU">> :> <<<<"r", "y", "u">>>> @@
  <<"RI", "xYO">> :> <<<<"r", "y", "o">>>> @@
  <<"GI", "xYA">> :> <<<<"g", "y", "a">>>> @@
  <<"GI", "xYU">> :> <<<<"g", "y", "u">>>> @@
  <<"GI", "xYO">> :> <<<<"g", "y", "o">>>> @@
  <<"ZI", "xYA">> :> <<<<"j", "a">>, <<"j", "y", "a">>, <<"z", "y", "a">>>> @@
  <<"ZI", "xYU">> :> <<<<"j", "u">>, <<"j", "y", "u">>, <<"z", "y", "u">>>> @@
  <<"ZI", "xYO">> :> <<<<"j", "o">>, <<"j", "y", "o">>, <<"z", "y", "o">>>> @@
  <<"BI", "xYA">> :> <<<<"b", "y", "a">>>> @@
  <<"BI", "xYU">> :> <<<<"b", "y", "u">>>> @@
  <<"BI", "xYO">> :> <<<<"b", "y", "o">>>> @@
  <<"PI", "xYA">> :> <<<<"p", "y", "a">>>> @@
  <<"PI", "xYU">> :> <<<<"p", "y", "u">>>> @@
  <<"PI", "xYO">> :> <<<<"p", "y", "o">>>> @@
  <<"I", "kxE">> :> <<<<"y", "e">>>> @@
  <<"U", "xA">> :> <<<<"w", "h", "a">>>> @@
  <<"U", "xI">> :> <<<<"w", "i">>, <<"w", "h", "i">>>> @@
  <<"U", "xE">> :> <<<<"w", "e">>, <<"w", "h", "e">>>> @@
  <<"U", "xO">> :> <<<<"w", "h", "o">>>> @@
  <<"kVU">> :> <<<<"v", "u">>>> @@
  <<"VU">> :> <<<<"v", "u">>>> @@
  <<"VU", "xA">> :> <<<<"v", "a">>>> @@
  <<"VU", "xI">> :> <<<<"v", "i">>>> @@
  <<"VU", "xE">> :> <<<<"v", "e">>>> @@
  <<"VU", "xO">> :> <<<<"v", "o">>>> @@
  <<"KU", "xA">> :> <<<<"q", "a">>, <<"q", "w", "a">>, <<"k", "w", "a">>>> @@
  <<"GU", "xA">> :> <<<<"g", "w", "a">>>> @@
  <<"SI", "kxE">> :> <<<<"s", "h", "e">>, <<"s", "y", "e">>>> @@
  <<"ZI", "kxE">> :> <<<<"j", "e">>, <<"j", "y", "e">>>> @@
  <<"TI", "kxE">> :> <<<<"c", "h", "e">>, <<"t", "y", "e">>>> @@
  <<"TU", "xA">> :> <<<<"t", "s", "a">>>> @@
  <<"TU", "xI">> :> <<<<"t", "s", "i">>>> @@
  <<"TU", "xE">> :> <<<<"t", "s", "e">>>> @@
  <<"TU", "xO">> :> <<<<"t", "s", "o">>>> @@
  <<"TE", "xI">> :> <<<<"t", "h", "i">>>> @@
  <<"TE", "xYU">> :> <<<<"t", "h", "u">>>> @@
  <<"DE", "xI">> :> <<<<"d", "h", "i">>>> @@
  <<"DE", "xYU">> :> <<<<"d", "h", "u">>>> @@
  <<"TO", "xU">> :> <<<<"t", "w", "u">>, <<"t", "o", "x", "u">>>> @@
  <<"DO", "xU">> :> <<<<"d", "w", "u">>, <<"d", "o", "x", "u">>>> @@
  <<"HU", "xA">> :> <<<<"f", "a">>>> @@
  <<"HU", "xI">> :> <<<<"f", "i">>>> @@
  <<"HU", "xE">> :> <<<<"f", "e">>>> @@
  <<"HU", "xO">> :> <<<<"f", "o">>>> @@
  <<"HU", "xYU">> :> <<<<"f", "y", "u">>>>

\* the characters of the Unicode block U+3040..U+309F (hiragana) that the
\* table uses; the two katakana characters of the table are outside it
Hiragana ==
  UNION {{t[i] : i \in 1..Len(t)} : t \in DOMAIN KanaTable} \ {"kVU", "kxE"}

\* table[token] || []
Lookup(table, token) == IF token \in DOMAIN table THEN table[token] ELSE <<>>

\* this.table[token] || []
TableOf(token) == Lookup(KanaTable, token)

\* a set that has the small tsu as well: FusesTheNine fails with it
SmallCharsAndTsu ==
  {"xYA", "xYU", "xYO", "xA", "xI", "xU", "xE", "xO", "xWA", "xTU"}

\* the characters that tokenize fuses with the character before them
SmallChars == {"xYA", "xYU", "xYO", "xA", "xI", "xU", "xE", "xO", "xWA"}

\* KanaEngine.tokenize: the tokens of kanaWord from position i on
RECURSIVE TokenizeFrom(_, _)
TokenizeFrom(kanaWord, i) ==
  IF i > Len(kanaWord) THEN <<>>
  ELSE IF i + 1 <= Len(kanaWord) /\ kanaWord[i + 1] \in SmallChars
       THEN <<SubSeq(kanaWord, i, i + 1)>> \o TokenizeFrom(kanaWord, i + 2)
       ELSE <<SubSeq(kanaWord, i, i)>> \o TokenizeFrom(kanaWord, i + 1)

\* a scan that starts at the second character: TokenizeRoundTrip fails with it
TokenizeFromSecond(kanaWord) == TokenizeFrom(kanaWord, 2)

tokenize(kanaWord) == TokenizeFrom(kanaWord, 1)

\* a list that keeps every occurrence: GeminatePatterns fails with it
KeepAll(seq) == seq

\* the elements of seq in order, each kept at its first occurrence only
RECURSIVE Distinct(_)
Distinct(seq) ==
  IF seq = <<>> THEN <<>>
  ELSE LET front == Distinct(SubSeq(seq, 1, Len(seq) - 1))
           last == seq[Len(seq)]
       IN  IF \E i \in 1..Len(front) : front[i] = last
           THEN front ELSE Append(front, last)

\* the loops the other way round (p2 outer, p1 inner): DigraphPatterns fails
\* with it
CrossProductInnerFirst(p1List, p2List) ==
  [k \in 1..(Len(p1List) * Len(p2List)) |->
     p1List[((k - 1) % Len(p1List)) + 1] \o p2List[((k - 1) \div Len(p1List)) + 1]]

\* p1 + p2 for every p1 of p1List (outer loop) and p2 of p2List (inner loop)
CrossProduct(p1List, p2List) ==
  [k \in 1..(Len(p1List) * Len(p2List)) |->
     p1List[((k - 1) \div Len(p2List)) + 1] \o p2List[((k - 1) % Len(p2List)) + 1]]

\* no next token (tokens[idx + 1] is undefined)
NoToken == <<>>

\* the first part of getValidPatterns: the patterns of the table, and for a
\* token of two characters that does not start with the small tsu every
\* p1 + p2; direct is this.table[token] || []
WithDigraph(token, direct) ==
  IF Len(token) = 2 /\ token[1] # "xTU"
  THEN direct \o CrossProduct(TableOf(<<token[1]>>), TableOf(<<token[2]>>))
  ELSE direct

\* the second part: for the small tsu before a token, the first characters
\* of that token's patterns go in front; nextBasicPatterns is
\* this.table[nextToken] || []
WithGeminate(token, nextToken, nextBasicPatterns, patterns) ==
  IF token = <<"xTU">> /\ nextToken # NoToken /\ Len(nextBasicPatterns) > 0
  THEN Distinct([i \in 1..Len(nextBasicPatterns) |-> <<nextBasicPatterns[i][1]>>])
         \o patterns
  ELSE patterns

\* KanaEngine.getValidPatterns
getValidPatterns(token, nextToken) ==
  WithGeminate(token, nextToken, TableOf(nextToken),
               WithDigraph(token, TableOf(token)))

\* p.startsWith(b)
StartsWith(p, b) == Len(b) <= Len(p) /\ SubSeq(p, 1, Len(b)) = b

\* patterns.some((p) => p.startsWith(buffer))
SomeStartsWith(patterns, buffer) ==
  \E i \in 1..Len(patterns) : StartsWith(patterns[i], buffer)

\* a test that takes a prefix of a pattern for the pattern: MatchStep fails
\* with it
IncludesPrefix(patterns, buffer) == SomeStartsWith(patterns, buffer)

\* patterns.includes(buffer)
Includes(patterns, buffer) == \E i \in 1..Len(patterns) : patterns[i] = buffer

\* /^[aiueoyn]/.test(KanaEngine.table[nextToken]?.[0]); a token missing from
\* the table gives test(undefined), which tests the text "undefined"
FirstStartsVowelYN(patterns) ==
  IF patterns # <<>>
  THEN patterns[1][1] \in {"a", "i", "u", "e", "o", "y", "n"}
  ELSE TRUE

StartsVowelYN(nextToken) == FirstStartsVowelYN(TableOf(nextToken))

\* a test that does not look at the next token: SingleNRule fails with it
AmbiguityWithoutNext(currToken, buffer, nextToken) ==
  currToken = <<"NN">> /\ buffer = <<"n">>

\* isN_Ambiguity
isN_Ambiguity(currToken, buffer, nextToken) ==
  /\ currToken = <<"NN">>
  /\ buffer = <<"n">>
  /\ nextToken # NoToken
  /\ StartsVowelYN(nextToken)

\* tokens[i], or no token past the end
TokenAt(tokens, i) == IF i <= Len(tokens) THEN tokens[i] ELSE NoToken

(***************************************************************************)
(* word-utils.ts: getNextWordSeeded.  A generator is its 32-bit state; a   *)
(* draw returns the word together with the generator's next state.         *)
(***************************************************************************)
\* thresholds that belong to the band below them: BandSelection fails with it
BandUpTo(elapsedTime) ==
  IF elapsedTime <= 20 THEN [min |-> 1, max |-> 3]
  ELSE IF elapsedTime <= 40 THEN [min |-> 3, max |-> 5]
  ELSE IF elapsedTime <= 60 THEN [min |-> 4, max |-> 6]
  ELSE [min |-> 5, max |-> 20]

\* the length band { min, max } of an elapsed time in seconds
Band(elapsedTime) ==
  IF elapsedTime < 20 THEN [min |-> 1, max |-> 3]
  ELSE IF elapsedTime < 40 THEN [min |-> 3, max |-> 5]
  ELSE IF elapsedTime < 60 THEN [min |-> 4, max |-> 6]
  ELSE [min |-> 5, max |-> 20]

\* a filter that counts the tokens of the kana: BandByCharacters fails with it
InBandByTokens(w, band) ==
  Len(tokenize(w.kana)) >= band.min /\ Len(tokenize(w.kana)) <= band.max

\* w.kana.length >= min && w.kana.length <= max
InBand(w, band) == Len(w.kana) >= band.min /\ Len(w.kana) <= band.max

\* { disp: "NO DATA", kana: "nodata" }
NoDataWord == [disp |-> "NO DATA", kana |-> <<"n", "o", "d", "a", "t", "a">>]

\* a selection that gives the sentinel when the band is empty:
\* GracefulDegradation fails with it
SentinelForEmptyBand(activeList, elapsedTime, prng) ==
  LET inBand == SelectSeq(activeList, LAMBDA w : InBand(w, Band(elapsedTime)))
      next == PrngAdvance(prng)
  IN  IF Len(inBand) = 0
      THEN [word |-> NoDataWord, prng |-> prng]
      ELSE [word |-> inBand[ScaleIndex(PrngOutput(next), Len(inBand)) + 1],
            prng |-> next]

\* a selection that calls the generator a second time when it falls back on
\* the whole list: OneDrawPerWord fails with it
RedrawOnFallback(activeList, elapsedTime, prng) ==
  LET band == Band(elapsedTime)
      inBand == SelectSeq(activeList, LAMBDA w : InBand(w, band))
      candidates == IF Len(inBand) = 0 THEN activeList ELSE inBand
      next == IF Len(inBand) = 0 THEN PrngAdvance(PrngAdvance(prng))
              ELSE PrngAdvance(prng)
  IN  IF Len(candidates) = 0
      THEN [word |-> NoDataWord, prng |-> prng]
      ELSE [word |-> candidates[ScaleIndex(PrngOutput(next), Len(candidates)) + 1],
            prng |-> next]

getNextWordSeeded(activeList, elapsedTime, prng) ==
  LET band == Band(elapsedTime)
      inBand == SelectSeq(activeList, LAMBDA w : InBand(w, band))
      candidates == IF Len(inBand) = 0 THEN activeList ELSE inBand
      next == PrngAdvance(prng)
  IN  IF Len(candidates) = 0
      THEN [word |-> NoDataWord, prng |-> prng]
      ELSE [word |-> candidates[ScaleIndex(PrngOutput(next), Len(candidates)) + 1],
            prng |-> next]

(***************************************************************************)
(* The word list (words.csv, read through parseWords).  The file is not    *)
(* part of the sources; the list below stands for its words, with one word *)
(* that carries the long-vowel mark ("CHOON"), which the filter of the     *)
(* official list removes (the table has no entry for the mark).            *)
(***************************************************************************)
RAW_WORDS ==
  << [disp |-> "neko",   kana |-> <<"NE", "KO">>],
     [disp |-> "kyaku",  kana |-> <<"KI", "xYA", "KU">>],
     [disp |-> "kitte",  kana |-> <<"KI", "xTU", "TE">>],
     [disp |-> "honya",  kana |-> <<"HO", "NN", "YA">>],
     [disp |-> "sakura", kana |-> <<"SA", "KU", "RA">>],
     [disp |-> "tamanegi", kana |-> <<"TA", "MA", "NE", "GI">>],
     [disp |-> "kakigoori", kana |-> <<"KA", "KI", "GO", "O", "RI">>],
     [disp |-> "koohii", kana |-> <<"KO", "CHOON", "HI", "CHOON">>] >>

\* String.prototype.includes
ContainsSeq(str, part) ==
  \E i \in 0..(Len(str) - Len(part)) : SubSeq(str, i + 1, i + Len(part)) = part

\* parseWords(wordsCsv).words.filter((w) => !w.kana.includes(long-vowel mark))
OFFICIAL_WORDS == SelectSeq(RAW_WORDS, LAMBDA w : ~ContainsSeq(w.kana, <<"CHOON">>))

(***************************************************************************)
(* word-utils.ts: parseWords.  A text is a sequence of characters: kana,   *)
(* Latin letters (lower case here, the upper-case names being kana), ",",  *)
(* " ", "CR" and "LF".  An error message `Line ${lineNo}: ${message}` is   *)
(* the record of its line number, its message and the kana it quotes.      *)
(***************************************************************************)
\* text.split(/\r\n|\n/): the lines from position i on, line being the part
\* of the current line read so far
RECURSIVE SplitLinesFrom(_, _, _)
SplitLinesFrom(text, i, line) ==
  IF i > Len(text) THEN <<line>>
  ELSE IF text[i] = "CR" /\ i + 1 <= Len(text) /\ text[i + 1] = "LF"
       THEN <<line>> \o SplitLinesFrom(text, i + 2, <<>>)
  ELSE IF text[i] = "LF"
       THEN <<line>> \o SplitLinesFrom(text, i + 1, <<>>)
  ELSE SplitLinesFrom(text, i + 1, Append(line, text[i]))

SplitLines(text) == SplitLinesFrom(text, 1, <<>>)

\* raw.split(","): the fields from position i on
RECURSIVE SplitFieldsFrom(_, _, _)
SplitFieldsFrom(raw, i, field) ==
  IF i > Len(raw) THEN <<field>>
  ELSE IF raw[i] = ","
       THEN <<field>> \o SplitFieldsFrom(raw, i + 1, <<>>)
  ELSE SplitFieldsFrom(raw, i + 1, Append(field, raw[i]))

SplitFields(raw) == SplitFieldsFrom(raw, 1, <<>>)

\* the characters String.prototype.trim removes (white space and line
\* terminators)
WhiteSpace == {" ", "CR", "LF"}

\* str.trim()
Trim(str) ==
  LET kept == {i \in 1..Len(str) : str[i] \notin WhiteSpace}
  IN  IF kept = {} THEN <<>>
      ELSE SubSeq(str, CHOOSE i \in kept : \A j \in kept : i <= j,
                       CHOOSE i \in kept : \A j \in kept : i >= j)

LatinLetters ==
  {"a", "b", "c", "d", "e", "f", "g", "h", "i", "j", "k", "l", "m",
   "n", "o", "p", "q", "r", "s", "t", "u", "v", "w", "x", "y", "z"}

\* /[A-Za-z]/.test(field)
HasLatin(field) == \E i \in 1..Len(field) : field[i] \in LatinLetters

\* a test that finds a header on any line: LinesHandledAlone fails with it
IsHeaderAnywhere(i, parts) ==
  Len(parts) >= 2 /\ HasLatin(parts[1]) /\ HasLatin(parts[2])

\* the header row: i === 0 && parts.length >= 2 && both fields have a letter
IsHeader(i, parts) ==
  i = 0 /\ Len(parts) >= 2 /\ HasLatin(parts[1]) /\ HasLatin(parts[2])

\* a test that takes every token: MatcherTotality fails with it
AnyToken(t) == TRUE

\* KanaEngine.table[t] is truthy (an entry of the table is an array)
InTable(t) == t \in DOMAIN KanaTable

\* the body of the for loop for line i (0-based): acc is { words, errors }
ParseLine(acc, raw, i) ==
  LET lineNo == i + 1
      parts == SplitFields(raw)
      Error(message, kana) ==
        [acc EXCEPT !.errors = Append(@, [lineNo |-> lineNo, message |-> message,
                                          kana |-> kana])]
  IN  IF Trim(raw) = <<>> THEN acc
      ELSE IF IsHeader(i, parts) THEN acc
      ELSE IF Len(parts) < 2 THEN Error("missing columns", <<>>)
      ELSE LET disp == Trim(parts[1])
               kana == Trim(parts[2])
               tokens == tokenize(kana)
           IN  IF disp = <<>> \/ kana = <<>>
               THEN Error("empty display or kana", <<>>)
               ELSE IF \E k \in 1..Len(tokens) : ~InTable(tokens[k])
               THEN Error("invalid kana", kana)
               ELSE [acc EXCEPT !.words = Append(@, [disp |-> disp, kana |-> kana])]

\* the for loop over the lines from line i on
RECURSIVE ParseFrom(_, _, _)
ParseFrom(lines, i, acc) ==
  IF i >= Len(lines) THEN acc
  ELSE ParseFrom(lines, i + 1, ParseLine(acc, lines[i + 1], i))

parseWords(text) == ParseFrom(SplitLines(text), 0, [words |-> <<>>, errors |-> <<>>])

(***************************************************************************)
(* routes/play/+page.server.ts: the checks of submitScore that follow the  *)
(* session lookup.  A submission is the parsed JSON body:                  *)
(*   score (with scoreIsNumber: typeof score === "number"),                *)
(*   keyLog (with keyLogIsArray), a sequence of [key, time (ms)],          *)
(*   playedWords (with playedWordsIsArray), a sequence of                  *)
(*     [disp, kana, startTime (s), isNull (the element is null)],          *)
(*   duration (s; 0 when absent), gameId, userId, username.                *)
(***************************************************************************)
StructureOK(sub) ==
  /\ sub.scoreIsNumber
  /\ sub.keyLogIsArray
  /\ sub.playedWordsIsArray
  /\ Len(sub.playedWords) # 0

\* keyLog[keyLog.length - 1]?.time || 0
LastKeyTime(sub) ==
  IF Len(sub.keyLog) = 0 THEN 0 ELSE sub.keyLog[Len(sub.keyLog)].time

\* a total game time that is the reported duration alone: DurationCeiling
\* fails with it
ReportedDurationOnly(sub) == sub.duration * 1000

\* totalGameTimeSeconds = duration || lastKeyTime / 1000, in milliseconds
TotalGameTimeMs(sub) ==
  IF sub.duration # 0 THEN sub.duration * 1000 ELSE LastKeyTime(sub)

\* key.length === 1 && /[\u3040-\u309F]/.test(key)
IsFlickInput(key) == Len(key) = 1 /\ key[1] \in Hiragana

\* a turn that stores the key in the buffer even when no pattern starts with
\* it: MatcherInvariant fails with it
KeyOutcomeStoresAll(st, key, currToken, nextToken, patterns) ==
  LET nextBuffer == st.inputBuffer \o key
      error == [st EXCEPT !.currentCombo = 0, !.hasErrorInWord = TRUE,
                          !.inputBuffer = nextBuffer]
      hit == [st EXCEPT !.correctKeys = @ + 1, !.currentCombo = @ + 1]
  IN  IF IsFlickInput(key) /\ key = currToken
      THEN [hit EXCEPT !.tokenIndex = @ + 1, !.inputBuffer = <<>>]
      ELSE IF ~IsFlickInput(key)
      THEN IF SomeStartsWith(patterns, nextBuffer)
           THEN IF Includes(patterns, nextBuffer)
                   /\ ~isN_Ambiguity(currToken, nextBuffer, nextToken)
                THEN [hit EXCEPT !.tokenIndex = @ + 1, !.inputBuffer = <<>>]
                ELSE [hit EXCEPT !.inputBuffer = nextBuffer]
           ELSE error
      ELSE error

\* one turn of the while loop of the replay, given the patterns of the
\* current token: st is
\* [tokenIndex, inputBuffer, hasErrorInWord, correctKeys, currentCombo]
KeyOutcome(st, key, currToken, nextToken, patterns) ==
  LET nextBuffer == st.inputBuffer \o key
      error == [st EXCEPT !.currentCombo = 0, !.hasErrorInWord = TRUE]
      hit == [st EXCEPT !.correctKeys = @ + 1, !.currentCombo = @ + 1]
  IN  IF IsFlickInput(key) /\ key = currToken
      THEN [hit EXCEPT !.tokenIndex = @ + 1, !.inputBuffer = <<>>]
      ELSE IF ~IsFlickInput(key)
      THEN IF SomeStartsWith(patterns, nextBuffer)
           THEN IF Includes(patterns, nextBuffer)
                   /\ ~isN_Ambiguity(currToken, nextBuffer, nextToken)
                THEN [hit EXCEPT !.tokenIndex = @ + 1, !.inputBuffer = <<>>]
                ELSE [hit EXCEPT !.inputBuffer = nextBuffer]
           ELSE error
      ELSE error

\* one turn of the while loop
ServerKeyStep(st, tokens, key) ==
  KeyOutcome(st, key, tokens[st.tokenIndex + 1], TokenAt(tokens, st.tokenIndex + 2),
             getValidPatterns(tokens[st.tokenIndex + 1],
                              TokenAt(tokens, st.tokenIndex + 2)))

\* the while loop: keys are consumed from keyLog[keyIdx] (0-based) on, until
\* the word is complete or the log is used up
RECURSIVE SimulateWord(_, _, _, _)
SimulateWord(tokens, keyLog, keyIdx, st) ==
  IF st.tokenIndex < Len(tokens) /\ keyIdx < Len(keyLog)
  THEN SimulateWord(tokens, keyLog, keyIdx + 1,
                    ServerKeyStep(st, tokens, keyLog[keyIdx + 1].key))
  ELSE [st |-> st, keyIdx |-> keyIdx]

(***************************************************************************)
(* The Number arithmetic of the score: IEEE 754 binary64, round to nearest, *)
(* ties to even.  A positive double is [m, e] with the value m * 2^e, m a   *)
(* binary numeral of at most 53 bits, least significant bit first, without  *)
(* leading zeros; zero is the empty numeral.                                *)
(***************************************************************************)
RECURSIVE BitsOf(_)
BitsOf(n) == IF n = 0 THEN <<>> ELSE <<n % 2>> \o BitsOf(n \div 2)

RECURSIVE NatOf(_)
NatOf(bits) == IF bits = <<>> THEN 0 ELSE bits[1] + 2 * NatOf(Tail(bits))

\* the bit of the numeral a at position i (1 is the least significant)
BitAt(a, i) == IF i <= Len(a) THEN a[i] ELSE 0

\* the carry into position i of a + b + carry: the nearest position below i
\* where the bits of a and b are equal decides it, the incoming carry when
\* there is none
CarryInto(a, b, carry, i) ==
  IF \E j \in 1..(i - 1) :
       /\ BitAt(a, j) = 1 /\ BitAt(b, j) = 1
       /\ \A k \in (j + 1)..(i - 1) : BitAt(a, k) # BitAt(b, k)
  THEN 1
  ELSE IF carry = 1 /\ \A k \in 1..(i - 1) : BitAt(a, k) # BitAt(b, k) THEN 1
  ELSE 0

\* the numeral of a + b + carry: as long as the longer of a and b, and one
\* bit longer when the sum carries out of it
AddBits(a, b, carry) ==
  LET n == IF Len(a) > Len(b) THEN Len(a) ELSE Len(b)
  IN  [i \in 1..n |-> (BitAt(a, i) + BitAt(b, i) + CarryInto(a, b, carry, i)) % 2]
        \o (IF CarryInto(a, b, carry, n + 1) = 1 THEN <<1>> ELSE <<>>)

\* the numeral a times the natural n
RECURSIVE MulBits(_, _)
MulBits(a, n) ==
  IF n = 0 \/ a = <<>> THEN <<>>
  ELSE AddBits(IF n % 2 = 1 THEN a ELSE <<>>,
               IF n \div 2 = 0 THEN <<>> ELSE <<0>> \o MulBits(a, n \div 2), 0)

\* the double nearest to m * 2^e
RoundDouble(m, e) ==
  LET extra == Len(m) - 53
  IN  IF extra <= 0 THEN [m |-> m, e |-> e]
      ELSE LET kept == SubSeq(m, extra + 1, Len(m))
               sticky == \E i \in 1..(extra - 1) : m[i] = 1
               up == m[extra] = 1 /\ (sticky \/ kept[1] = 1)
               r == IF up THEN AddBits(kept, <<1>>, 0) ELSE kept
           IN  IF Len(r) > 53 THEN [m |-> Tail(r), e |-> e + extra + 1]
               ELSE [m |-> r, e |-> e + extra]

\* the four bits of a hexadecimal digit
Nibble(d) == <<d % 2, (d \div 2) % 2, (d \div 4) % 2, d \div 8>>

\* the literal 0.05: 0x1999999999999A * 2^-57
COMBO_MULTIPLIER ==
  [m |-> Nibble(10) \o Nibble(9) \o Nibble(9) \o Nibble(9) \o Nibble(9)
           \o Nibble(9) \o Nibble(9) \o Nibble(9) \o Nibble(9) \o Nibble(9)
           \o Nibble(9) \o Nibble(9) \o Nibble(9) \o <<1>>,
   e |-> -57]

\* n * x for a natural n and a double x
TimesDouble(n, x) == RoundDouble(MulBits(x.m, n), x.e)

\* 1 + x for a double x below 2^52 (x.e is negative)
OnePlus(x) ==
  IF x.m = <<>> THEN [m |-> <<1>>, e |-> 0]
  ELSE RoundDouble(AddBits(x.m, [i \in 1..(-x.e) |-> 0] \o <<1>>, 0), x.e)

\* Math.floor(x) for a double x whose floor is a small integer
Floor(x) ==
  IF x.e >= 0 THEN NatOf(x.m \o [i \in 1..x.e |-> 0])
  ELSE IF Len(x.m) <= -x.e THEN 0
  ELSE NatOf(SubSeq(x.m, 1 - x.e, Len(x.m)))

\* scoreGain = wordLen * BASE_SCORE_PER_CHAR;
\* multiplier = 1 + combo * COMBO_MULTIPLIER;
\* Math.floor(scoreGain * multiplier)
FloorOfProduct(wordLen, combo) ==
  Floor(TimesDouble(wordLen * BASE_SCORE_PER_CHAR,
                    OnePlus(TimesDouble(combo, COMBO_MULTIPLIER))))

\* the longest buffer the match step is given
MaxBuffer == 5
\* the longest word and the longest combo the table of scores holds
MaxWordLen == 10
MaxCombo == 80

\* the values of FloorOfProduct, computed once
ScoreTable ==
  [wordLen \in 1..MaxWordLen, combo \in 0..MaxCombo |-> FloorOfProduct(wordLen, combo)]

\* the scoreGain of a completed word before the perfect bonus
ComboScore(wordLen, combo) ==
  IF wordLen \in 1..MaxWordLen /\ combo \in 0..MaxCombo
  THEN ScoreTable[wordLen, combo]
  ELSE FloorOfProduct(wordLen, combo)

\* Math.max(1, Math.floor(wordLen / 2))
TimeBonus(wordLen) == IF wordLen \div 2 > 1 THEN wordLen \div 2 ELSE 1

\* the seconds of grace of the time budget check
BUDGET_GRACE == 2

\* a budget that starts from MAX_TIME instead of DEFAULT_TIME:
\* TimeBudgetEnforced fails with it
OverBudgetOfMaxTime(startTime, totalTimeBonuses) ==
  startTime > MAX_TIME + totalTimeBonuses + BUDGET_GRACE

\* the check of clientWord.startTime against the time budget
OverBudget(startTime, totalTimeBonuses) ==
  startTime > DEFAULT_TIME + totalTimeBonuses + BUDGET_GRACE

\* a comparison of the displayed forms instead of the kana:
\* WordMismatchRejected fails with it
DispDiffers(clientWord, expectedWord) == clientWord.disp # expectedWord.disp

\* clientWord.kana !== expectedWord.kana
WordDiffers(clientWord, expectedWord) == clientWord.kana # expectedWord.kana

\* the accumulators after a word: sim is what the while loop left
AfterWord(acc, prng, wordLen, tokens, sim) ==
  LET complete == sim.st.tokenIndex >= Len(tokens)
      perfect == complete /\ ~sim.st.hasErrorInWord
      scoreGain ==
        IF ~complete THEN 0
        ELSE ComboScore(wordLen, sim.st.currentCombo)
               + (IF perfect THEN PERFECT_SCORE_BONUS ELSE 0)
  IN  [prng |-> prng,
       serverScore |-> acc.serverScore + scoreGain,
       currentCombo |-> sim.st.currentCombo,
       correctKeys |-> sim.st.correctKeys,
       keyIdx |-> sim.keyIdx,
       totalTimeBonuses |-> acc.totalTimeBonuses
         + (IF perfect THEN TimeBonus(wordLen) ELSE 0)]

\* the state of the while loop at the start of a word
WordStart(acc) ==
  [tokenIndex |-> 0, inputBuffer |-> <<>>, hasErrorInWord |-> FALSE,
   correctKeys |-> acc.correctKeys, currentCombo |-> acc.currentCombo]

\* the for loop over playedWords; acc is
\* [prng, serverScore, currentCombo, correctKeys, keyIdx, totalTimeBonuses].
\* ReplayWord is the body of the loop for clientWord at index i (0-based),
\* ReplayDrawn the body from the draw of expectedWord on: the outcome says
\* whether the loop goes on ("replayed", with the index of the next word) or
\* how it ends.
ReplayDrawn(sub, i, acc, clientWord, draw) ==
  IF WordDiffers(clientWord, draw.word)
  THEN [verdict |-> "word mismatch", index |-> i, acc |-> acc]
  ELSE IF OverBudget(clientWord.startTime, acc.totalTimeBonuses)
  THEN [verdict |-> "time budget", index |-> i, acc |-> acc]
  ELSE [verdict |-> "replayed", index |-> i + 1,
        acc |-> AfterWord(acc, draw.prng, Len(clientWord.kana),
                          tokenize(clientWord.kana),
                          SimulateWord(tokenize(clientWord.kana), sub.keyLog,
                                       acc.keyIdx, WordStart(acc)))]

ReplayWord(sub, i, acc, clientWord) ==
  IF clientWord.isNull
  THEN [verdict |-> "throw", index |-> i, acc |-> acc]
  ELSE ReplayDrawn(sub, i, acc, clientWord,
                   getNextWordSeeded(OFFICIAL_WORDS, clientWord.startTime, acc.prng))

\* the iterations of the loop for the indices lo..(hi - 1), entered with the
\* outcome of the iterations before them: the first half of the iterations,
\* then the second half
RECURSIVE ReplayFrom(_, _, _, _)
ReplayFrom(sub, lo, hi, before) ==
  IF before.verdict # "replayed" \/ lo >= hi THEN before
  ELSE IF hi = lo + 1
  THEN ReplayWord(sub, lo, before.acc, sub.playedWords[lo + 1])
  ELSE ReplayFrom(sub, (lo + hi) \div 2, hi,
                  ReplayFrom(sub, lo, (lo + hi) \div 2, before))

\* createPRNG(session.seed) and the replay of the whole submission
Replay(seed, sub) ==
  ReplayFrom(sub, 0, Len(sub.playedWords),
    [verdict |-> "replayed", index |-> 0,
     acc |-> [prng |-> Word32(seed), serverScore |-> 0, currentCombo |-> 0,
              correctKeys |-> 0, keyIdx |-> 0, totalTimeBonuses |-> 0]])

\* the ceiling of totalGameTimeSeconds
DURATION_LIMIT == 600
\* the ceiling of kpm
KPM_LIMIT == 1200
\* durationMin > 0.05, as milliseconds of total game time
KPM_MIN_MS == 3000
\* the bot checks run when keyLog.length exceeds this
MIN_SAMPLE == 30
\* the floor of the variance of the intervals
VARIANCE_FLOOR == 2

\* kpm = durationMin > 0.05 ? correctKeys / durationMin : 0, compared with
\* KPM_LIMIT
TooFast(correctKeys, totalMs) ==
  totalMs > KPM_MIN_MS /\ correctKeys * 60000 > KPM_LIMIT * totalMs

\* Math.round(kpm)
RoundedKpm(correctKeys, totalMs) ==
  IF totalMs > KPM_MIN_MS
  THEN (2 * correctKeys * 60000 + totalMs) \div (2 * totalMs)
  ELSE 0

\* intervals[i] = keyLog[i].time - keyLog[i - 1].time
Intervals(keyLog) ==
  [i \in 1..(Len(keyLog) - 1) |-> keyLog[i + 1].time - keyLog[i].time]

\* the sum of the numbers of seq, as the sum of its two halves
RECURSIVE SumSeq(_)
SumSeq(seq) ==
  IF Len(seq) = 0 THEN 0
  ELSE IF Len(seq) = 1 THEN seq[1]
  ELSE SumSeq(SubSeq(seq, 1, Len(seq) \div 2))
         + SumSeq(SubSeq(seq, Len(seq) \div 2 + 1, Len(seq)))

\* a variance test that no key log meets: RegularityCheck fails with it
NegativeVariance(intervals) ==
  LET n == Len(intervals)
      total == SumSeq(intervals)
      dev == [i \in 1..n |-> (n * intervals[i] - total) * (n * intervals[i] - total)]
  IN  SumSeq(dev) < 0

\* variance < 2, where variance is the mean of (b - avg)^2 and avg the mean
\* of the n intervals: multiplied through by n^3
TooConsistent(intervals) ==
  LET n == Len(intervals)
      total == SumSeq(intervals)
      dev == [i \in 1..n |-> (n * intervals[i] - total) * (n * intervals[i] - total)]
  IN  SumSeq(dev) < VARIANCE_FLOOR * n * n * n

\* bursts > keyLog.length * 0.8
TooManyBursts(keyLog) ==
  LET intervals == Intervals(keyLog)
      bursts == Cardinality({i \in 1..Len(intervals) : intervals[i] = 0})
  IN  5 * bursts > 4 * Len(keyLog)

\* a score check with a tolerance of one point: ExactScoreEquality fails
\* with it
ScoreMismatchTolerant(serverScore, score) ==
  serverScore - score > 1 \/ score - serverScore > 1

\* Math.abs(serverScore - score) > 0
ScoreMismatch(serverScore, score) == serverScore # score

\* the same checks with the two bot checks first: ChecksInCodeOrder fails
\* with it
BotChecksFirst(sub, acc, totalMs) ==
  IF Len(sub.keyLog) > MIN_SAMPLE /\ TooConsistent(Intervals(sub.keyLog))
  THEN "too consistent"
  ELSE IF Len(sub.keyLog) > MIN_SAMPLE /\ TooManyBursts(sub.keyLog) THEN "burst"
  ELSE IF ScoreMismatch(acc.serverScore, sub.score) THEN "score mismatch"
  ELSE IF TooFast(acc.correctKeys, totalMs) THEN "speed"
  ELSE "ok"

\* the checks after the replay loop, in the order of the code: score, speed,
\* interval variance, burst ratio
PostReplayChecks(sub, acc, totalMs) ==
  IF ScoreMismatch(acc.serverScore, sub.score) THEN "score mismatch"
  ELSE IF TooFast(acc.correctKeys, totalMs) THEN "speed"
  ELSE IF Len(sub.keyLog) > MIN_SAMPLE /\ TooConsistent(Intervals(sub.keyLog))
  THEN "too consistent"
  ELSE IF Len(sub.keyLog) > MIN_SAMPLE /\ TooManyBursts(sub.keyLog) THEN "burst"
  ELSE "ok"

\* the outcome of a replay rep and of the checks that follow it
Judge(sub, totalMs, rep) ==
  LET none == [reason |-> "ok", index |-> 0, serverScore |-> 0, kpm |-> 0]
  IN  IF rep.verdict = "throw" THEN [none EXCEPT !.reason = "internal"]
      ELSE IF rep.verdict # "replayed"
      THEN [none EXCEPT !.reason = rep.verdict, !.index = rep.index]
      ELSE
        [reason |-> PostReplayChecks(sub, rep.acc, totalMs), index |-> 0,
         serverScore |-> rep.acc.serverScore,
         kpm |-> RoundedKpm(rep.acc.correctKeys, totalMs)]

\* the outcome of the checks that follow the session's expiry check, for the
\* session's seed: the reason of the first check that fails ("ok" when none
\* does; "internal" when a step throws), with the index of the word for the
\* two per-word checks, the replayed serverScore and Math.round(kpm)
Verify(seed, sub) ==
  LET none == [reason |-> "ok", index |-> 0, serverScore |-> 0, kpm |-> 0]
  IN  IF ~StructureOK(sub) THEN [none EXCEPT !.reason = "structure"]
      ELSE IF TotalGameTimeMs(sub) > DURATION_LIMIT * 1000
      THEN [none EXCEPT !.reason = "duration"]
      ELSE Judge(sub, TotalGameTimeMs(sub), Replay(seed, sub))

(***************************************************************************)
(* The submissions the model sends.  A submission is written for a seed    *)
(* (the seed the token response gave the client) from a shape: an honestly *)
(* typed log of some words, possibly tampered with.                        *)
(***************************************************************************)
\* the first pattern of every token of kana, key by key
RECURSIVE CanonicalFrom(_, _)
CanonicalFrom(tokens, i) ==
  IF i > Len(tokens) THEN <<>>
  ELSE getValidPatterns(tokens[i], TokenAt(tokens, i + 1))[1]
         \o CanonicalFrom(tokens, i + 1)

CanonicalKeys(kana) == CanonicalFrom(tokenize(kana), 1)

\* the words a client seeded with prng is shown for the words lo..hi, word i
\* starting at starts[i] seconds, and the generator after them: the first
\* half of these words, then the second half
RECURSIVE DrawRange(_, _, _, _)
DrawRange(prng, starts, lo, hi) ==
  IF lo > hi THEN [words |-> <<>>, prng |-> prng]
  ELSE IF lo = hi
  THEN LET draw == getNextWordSeeded(OFFICIAL_WORDS, starts[lo], prng)
       IN  [words |-> <<[disp |-> draw.word.disp, kana |-> draw.word.kana,
                         startTime |-> starts[lo], isNull |-> FALSE]>>,
            prng |-> draw.prng]
  ELSE LET first == DrawRange(prng, starts, lo, (lo + hi) \div 2)
           second == DrawRange(first.prng, starts, (lo + hi) \div 2 + 1, hi)
       IN  [words |-> first.words \o second.words, prng |-> second.prng]

\* the words a client seeded with prng is shown when word i starts at
\* starts[i] seconds
DrawWords(prng, starts, i) == DrawRange(prng, starts, i, Len(starts)).words

\* the keys of the words from word i on: the keys of the first half of
\* these words, then those of the second half
RECURSIVE AllKeys(_, _, _)
AllKeys(words, lo, hi) ==
  IF lo > hi THEN <<>>
  ELSE IF lo = hi THEN CanonicalKeys(words[lo].kana)
  ELSE AllKeys(words, lo, (lo + hi) \div 2)
         \o AllKeys(words, (lo + hi) \div 2 + 1, hi)

\* the time in ms of the k-th key of a log typed with the given rhythm
KeyTime(rhythm, k) ==
  CASE rhythm = "human" -> 90 * k + 17 * (k % 3)
    [] rhythm = "metronome" -> 50 * k
    [] rhythm = "burst" -> 10 * (k \div 8)
    [] rhythm = "rapid" -> 40 * k
    [] rhythm = "stalled" -> DURATION_LIMIT * 1000 + 1000 + k
    [] OTHER -> 0

\* the body of a client that typed keys for words, with its score left open
Timed(words, keys, rhythm) ==
  [score |-> 0, scoreIsNumber |-> TRUE,
   keyLog |-> [k \in 1..Len(keys) |-> [key |-> <<keys[k]>>, time |-> KeyTime(rhythm, k)]],
   keyLogIsArray |-> TRUE,
   playedWords |-> words, playedWordsIsArray |-> TRUE,
   duration |-> 60]

\* the body of a client that typed words, every word by its first patterns
LogOf(words, rhythm) == Timed(words, AllKeys(words, 1, Len(words)), rhythm)

\* the body an honest client sends after typing the words started at starts
TypedLog(seed, starts, rhythm) == LogOf(DrawWords(Word32(seed), starts, 1), rhythm)

\* the same body with the score the typing earns
Scored(seed, body) == [body EXCEPT !.score = Replay(seed, body).acc.serverScore]

\* start times: n words, one started every second from startAt on
StartsFrom(startAt, n) == [i \in 1..n |-> startAt + i - 1]

\* a pool word other than the given one
OtherKana(kana) ==
  IF kana = OFFICIAL_WORDS[1].kana THEN OFFICIAL_WORDS[2].kana ELSE OFFICIAL_WORDS[1].kana

\* the number of words of the long logs: more than MIN_SAMPLE keys
LongWords == 8
\* the number of words of the fast log: its 40 ms rhythm passes KPM_MIN_MS
FastWords == 19

Shapes ==
  {"one", "two", "scorePlus", "scoreMinus", "altered", "late", "lateAltered",
   "lateScore", "slow", "slowAltered", "slowScore", "notNumber", "noWords",
   "nullWord", "metronome", "burst", "long", "metronomeScore", "fast",
   "secondLate", "alteredLate"}

\* shapes at the edges of the time budget, the duration ceiling, the speed
\* ceiling and the sample size of the bot checks
EdgeShapes ==
  {"atBudget", "pastBudget", "erred", "erredInTime", "slowKeys", "atLimit",
   "blitz", "twoMetronome", "twoBurst", "padded30", "padded31"}

AllShapes == Shapes \cup EdgeShapes

\* the start times of the words of a shape; the first word of a game has at
\* most three kana and earns one second when typed without an error
ShapeStarts(shape) ==
  IF shape \in {"one", "scorePlus", "notNumber", "noWords", "blitz"}
  THEN StartsFrom(0, 1)
  ELSE IF shape \in {"atBudget", "erred"}
  THEN <<0, DEFAULT_TIME + 1 + BUDGET_GRACE>>
  ELSE IF shape = "pastBudget" THEN <<0, DEFAULT_TIME + 1 + BUDGET_GRACE + 1>>
  ELSE IF shape = "erredInTime" THEN <<0, DEFAULT_TIME + BUDGET_GRACE>>
  ELSE IF shape \in {"late", "lateAltered", "lateScore"} THEN <<70, 71>>
  ELSE IF shape \in {"secondLate", "alteredLate"} THEN <<0, 70>>
  ELSE IF shape \in {"metronome", "metronomeScore", "burst", "long"}
  THEN StartsFrom(0, LongWords)
  ELSE IF shape = "fast" THEN StartsFrom(0, FastWords)
  ELSE StartsFrom(0, 2)

\* the rhythm of the keys of a shape
ShapeRhythm(shape) ==
  IF shape \in {"metronome", "metronomeScore"} THEN "metronome"
  ELSE IF shape = "burst" THEN "burst"
  ELSE IF shape \in {"fast", "blitz"} THEN "rapid"
  ELSE IF shape \in {"twoMetronome", "padded30", "padded31"} THEN "metronome"
  ELSE IF shape = "twoBurst" THEN "burst"
  ELSE IF shape = "slowKeys" THEN "stalled"
  ELSE "human"

\* keyLog with entries added after its last one, n entries in all: the
\* replay has no word left for them
Padded(keyLog, n) ==
  [k \in 1..n |->
     IF k <= Len(keyLog) THEN keyLog[k]
     ELSE [key |-> <<"a">>, time |-> KeyTime("metronome", k)]]

\* what a shape changes in the typing of the honest body b: a wrong key
\* before the first word
Mistype(shape, b) ==
  IF shape \in {"erred", "erredInTime"}
  THEN [b EXCEPT !.keyLog = <<[key |-> <<"0">>, time |-> 0]>> \o @]
  ELSE b

\* what a shape changes in the honest body b
Tamper(shape, b) ==
  CASE shape \in {"scorePlus", "lateScore", "metronomeScore"} ->
         [b EXCEPT !.score = @ + 1]
    [] shape = "scoreMinus" -> [b EXCEPT !.score = @ - 1]
    [] shape \in {"altered", "lateAltered", "alteredLate"} ->
         [b EXCEPT !.playedWords[2].kana = OtherKana(@)]
    [] shape = "slow" -> [b EXCEPT !.duration = DURATION_LIMIT + 1]
    [] shape = "slowAltered" ->
         [b EXCEPT !.duration = DURATION_LIMIT + 1,
                   !.playedWords[2].kana = OtherKana(@)]
    [] shape = "slowScore" ->
         [b EXCEPT !.duration = DURATION_LIMIT + 1, !.score = @ + 1]
    [] shape = "notNumber" -> [b EXCEPT !.scoreIsNumber = FALSE]
    [] shape = "noWords" -> [b EXCEPT !.playedWords = <<>>]
    [] shape = "nullWord" -> [b EXCEPT !.playedWords[2].isNull = TRUE]
    [] shape \in {"fast", "blitz", "slowKeys"} -> [b EXCEPT !.duration = 0]
    [] shape = "atLimit" -> [b EXCEPT !.duration = DURATION_LIMIT]
    [] shape = "padded30" -> [b EXCEPT !.keyLog = Padded(@, MIN_SAMPLE)]
    [] shape = "padded31" -> [b EXCEPT !.keyLog = Padded(@, MIN_SAMPLE + 1)]
    [] OTHER -> b

\* the body of a shape, written for a seed
Body(seed, shape) ==
  Tamper(shape,
    Scored(seed,
      Mistype(shape, TypedLog(seed, ShapeStarts(shape), ShapeRhythm(shape)))))

(***************************************************************************)
(* routes/play/+page.server.ts as a state machine.  The tables of the      *)
(* database are shared by all requests; every statement is atomic and      *)
(* completes, and a handler can be overtaken by another one wherever it    *)
(* awaits a statement.                                                     *)
(***************************************************************************)
\* the seeds getGameToken draws (Math.floor(Math.random() * 1000000))
Seeds == {12345, 7}
\* the number of sessions getGameToken issues
MaxGames == 2
\* the number of submitScore requests
MaxReq == 2
\* the clock runs from 0 to MaxClock steps of CLOCK_STEP ms
MaxClock == 2
SESSION_TTL == 10 * 60 * 1000
CLOCK_STEP == SESSION_TTL

Reqs == 1..MaxReq

\* user ids: one that starts with "usr_" and an absent one
UsrA == <<"u", "s", "r", "_", "a">>
NoUser == <<>>
UserIds == {UsrA, NoUser}

\* the body and its verdict for every seed and shape, computed once
Bodies == [seed \in Seeds, shape \in AllShapes |-> Body(seed, shape)]
Verdicts == [seed \in Seeds, shape \in AllShapes |-> Verify(seed, Bodies[seed, shape])]

VARIABLES
  game_sessions,  \* the rows [id, seed, expires_at] of table game_sessions
  scores,         \* the rows [user_id, username, score, kpm] of table scores
  now,            \* Date.now()
  issued,         \* the token responses so far: [success, gameId, seed]
  req,            \* the submitScore handlers: their position and locals
  game,           \* the stores and fields of the play engine and its page
  gen,            \* the states of the generators createPRNG has returned
  probe           \* the last application of a function to drawn inputs

serverVars == <<game_sessions, scores, now, issued, req>>
clientVars == <<game>>
vars == <<game_sessions, scores, now, issued, req, game, gen, probe>>

\* no row (first() returned null)
NoRow == [id |-> 0, seed |-> 0, expires_at |-> 0]
NoBest == [user_id |-> NoUser, username |-> "", score |-> 0, kpm |-> 0]
NoBody == <<>>
NoSub == [gameId |-> 0, seed |-> 0, shape |-> "none", body |-> NoBody,
          userId |-> NoUser, username |-> ""]
NoResult == [success |-> FALSE, reason |-> "pending", index |-> 0,
             verifiedScore |-> 0, kpm |-> 0, isNewRecord |-> FALSE]
IdleReq == [pc |-> "idle", sub |-> NoSub, session |-> NoRow,
            verdict |-> [reason |-> "pending", index |-> 0, serverScore |-> 0, kpm |-> 0],
            currentBest |-> NoBest, result |-> NoResult]

ServerInit ==
  /\ game_sessions = {}
  /\ scores = {}
  /\ now = 0
  /\ issued = <<>>
  /\ req = [r \in Reqs |-> IdleReq]

\* the JSON body of a submission: the one the play page sent, or the body of
\* the shape
Payload(sub) ==
  IF sub.shape = "client" THEN sub.body ELSE Bodies[sub.seed, sub.shape]

\* fail(status, { message }): the handler returns a failure
Fail(r, reason, index) ==
  [req[r] EXCEPT !.pc = "done",
                 !.result = [NoResult EXCEPT !.reason = reason, !.index = index]]

\* return { success: true, verifiedScore, kpm, isNewRecord }
Succeed(q, isNewRecord) ==
  [q EXCEPT !.pc = "done",
            !.result = [success |-> TRUE, reason |-> "ok", index |-> 0,
                        verifiedScore |-> q.verdict.serverScore,
                        kpm |-> q.verdict.kpm, isNewRecord |-> isNewRecord]]

\* a cleanup that also takes the sessions that expire at this very moment:
\* SessionsStayConsumable fails with it
SweepUpToNow(table, clock) == {s \in table : ~(s.expires_at <= clock)}

\* DELETE FROM game_sessions WHERE expires_at < ?, bound to Date.now(): the
\* table after the statement
Sweep(table, clock) == {s \in table : ~(s.expires_at < clock)}

\* getGameToken: INSERT the session, then with one chance in ten DELETE the
\* expired ones, and return { gameId, seed }.  Ids are fresh.
GetGameToken(seed, sweep) ==
  /\ Len(issued) < MaxGames
  /\ LET id == Len(issued) + 1
         inserted == game_sessions \cup
                       {[id |-> id, seed |-> seed, expires_at |-> now + SESSION_TTL]}
     IN  /\ game_sessions' =
              IF sweep THEN Sweep(inserted, now) ELSE inserted
         /\ issued' = Append(issued, [success |-> TRUE, gameId |-> id, seed |-> seed])
  /\ UNCHANGED <<scores, now, req, game, gen, probe>>

\* time passes
AdvanceClock ==
  /\ now < MaxClock * CLOCK_STEP
  /\ now' = now + CLOCK_STEP
  /\ UNCHANGED <<game_sessions, scores, issued, req, game, gen, probe>>

\* submitScore up to its first statement: the body is parsed; a missing
\* gameId (0 here) is rejected at once
Parse(r, g, shape, body, userId) ==
  /\ req[r].pc = "idle"
  /\ LET sub == [gameId |-> g, seed |-> IF g = 0 THEN issued[1].seed ELSE issued[g].seed,
                 shape |-> shape, body |-> body, userId |-> userId,
                 username |-> "neo"]
     IN  req' = [req EXCEPT ![r] =
                   IF g = 0 THEN [Fail(r, "missing id", 0) EXCEPT !.sub = sub]
                   ELSE [@ EXCEPT !.pc = "select", !.sub = sub]]

\* a request with the body of a shape
Receive(r, g, shape, userId) ==
  /\ Parse(r, g, shape, NoBody, userId)
  /\ UNCHANGED <<game_sessions, scores, now, issued, game, gen, probe>>

\* SELECT seed, expires_at FROM game_sessions WHERE id = ?, and the code up
\* to the DELETE
SelectSession(r) ==
  /\ req[r].pc = "select"
  /\ LET rows == {s \in game_sessions : s.id = req[r].sub.gameId}
     IN  req' = [req EXCEPT ![r] =
                   IF rows = {} THEN Fail(r, "invalid session", 0)
                   ELSE [@ EXCEPT !.pc = "delete", !.session = CHOOSE s \in rows : TRUE]]
  /\ UNCHANGED <<game_sessions, scores, now, issued, game, gen, probe>>

\* db && userId && userId.startsWith("usr_")
Eligible(userId) == StartsWith(userId, <<"u", "s", "r", "_">>)

\* a handler whose burst check does not return: RejectionPersistsNothing
\* fails with it
ReachesPersistenceLenient(verdict) == verdict.reason \in {"ok", "burst"}

\* whether the handler goes on to the personal-best block: every check that
\* fails returns before it
ReachesPersistence(verdict) == verdict.reason = "ok"

\* an expiry check that allows one more CLOCK_STEP: SessionErrors fails with
\* it
ExpiredAfterGrace(session, clock) == clock > session.expires_at + CLOCK_STEP

\* Date.now() > session.expires_at
Expired(session, clock) == clock > session.expires_at

\* the checks after the DELETE, in the order of the code
Checks(session, clock, sub) ==
  IF Expired(session, clock)
  THEN [reason |-> "expired", index |-> 0, serverScore |-> 0, kpm |-> 0]
  ELSE IF sub.shape \in AllShapes /\ sub.seed = session.seed
  THEN Verdicts[sub.seed, sub.shape]
  ELSE Verify(session.seed, Payload(sub))

\* a statement that deletes nothing: ConsumedBeforeVerification fails with it
DeleteNothing(table, gameId) == table

\* DELETE FROM game_sessions WHERE id = ?: the table after the statement
DeleteFrom(table, gameId) == {s \in table : s.id # gameId}

\* the DELETE, and the code up to the SELECT of the current best: all the
\* checks
DeleteSession(r) ==
  /\ req[r].pc = "delete"
  /\ game_sessions' = DeleteFrom(game_sessions, req[r].sub.gameId)
  /\ LET verdict == Checks(req[r].session, now, req[r].sub)
         checked == [req[r] EXCEPT !.verdict = verdict]
     IN  req' = [req EXCEPT ![r] =
                   IF ~ReachesPersistence(verdict)
                   THEN [checked EXCEPT !.pc = "done",
                           !.result = [NoResult EXCEPT !.reason = verdict.reason,
                                                       !.index = verdict.index]]
                   ELSE IF Eligible(req[r].sub.userId)
                   THEN [checked EXCEPT !.pc = "selectBest"]
                   ELSE Succeed(checked, FALSE)]
  /\ UNCHANGED <<scores, now, issued, game, gen, probe>>

\* a comparison that also lets an equal score through: BestScoreIdempotent
\* fails with it
ImprovesOrEquals(serverScore, currentBest) ==
  currentBest = NoBest \/ serverScore >= currentBest.score

\* !currentBest || serverScore > currentBest.score
Improves(serverScore, currentBest) ==
  currentBest = NoBest \/ serverScore > currentBest.score

\* SELECT score FROM scores WHERE user_id = ?, and the code up to the INSERT
SelectBest(r) ==
  /\ req[r].pc = "selectBest"
  /\ LET rows == {s \in scores : s.user_id = req[r].sub.userId}
         best == IF rows = {} THEN NoBest ELSE CHOOSE s \in rows : TRUE
         q == [req[r] EXCEPT !.currentBest = best]
     IN  req' = [req EXCEPT ![r] =
                   IF Improves(q.verdict.serverScore, best)
                   THEN [q EXCEPT !.pc = "upsert"]
                   ELSE Succeed(q, FALSE)]
  /\ UNCHANGED <<game_sessions, scores, now, issued, game, gen, probe>>

\* username?.trim() || "guest" (the model's names carry no blanks)
FinalName(username) == IF username = "" THEN "guest" ELSE username

\* INSERT INTO scores ... ON CONFLICT(user_id) DO UPDATE SET ...: the table
\* after the statement
UpsertRow(table, row) == {s \in table : s.user_id # row.user_id} \cup {row}

\* the INSERT, and the code up to the return
Upsert(r) ==
  /\ req[r].pc = "upsert"
  /\ scores' = UpsertRow(scores,
                 [user_id |-> req[r].sub.userId,
                  username |-> FinalName(req[r].sub.username),
                  score |-> req[r].verdict.serverScore,
                  kpm |-> req[r].verdict.kpm])
  /\ req' = [req EXCEPT ![r] = Succeed(@, TRUE)]
  /\ UNCHANGED <<game_sessions, now, issued, game, gen, probe>>

(***************************************************************************)
(* Failures of the storage: platform.env.DB is missing, or a statement      *)
(* throws.  A statement that throws has taken effect or has not.            *)
(***************************************************************************)
\* fail(500, { message }) of getGameToken: no gameId and no seed
NoGame == [success |-> FALSE, gameId |-> 0, seed |-> 0]

\* getGameToken when platform.env.DB is missing
GetGameTokenNoDb ==
  /\ Len(issued) < MaxGames
  /\ issued' = Append(issued, NoGame)
  /\ UNCHANGED <<game_sessions, scores, now, req, game, gen, probe>>

\* getGameToken when the INSERT throws (swept is FALSE) or the cleanup
\* DELETE throws (inserted is TRUE)
GetGameTokenThrows(seed, inserted, swept) ==
  /\ Len(issued) < MaxGames
  /\ swept => inserted
  /\ LET row == [id |-> Len(issued) + 1, seed |-> seed, expires_at |-> now + SESSION_TTL]
         table == IF inserted THEN game_sessions \cup {row} ELSE game_sessions
     IN  game_sessions' =
           IF swept THEN Sweep(table, now) ELSE table
  /\ issued' = Append(issued, NoGame)
  /\ UNCHANGED <<scores, now, req, game, gen, probe>>

\* a catch block that returns success: FailuresNotCoerced fails with it
CatchAndAccept(r) == Succeed(req[r], FALSE)

\* the catch block of submitScore
Catch(r) == Fail(r, "internal", 0)

\* submitScore when request.formData() or JSON.parse throws
ReceiveUnparsable(r) ==
  /\ req[r].pc = "idle"
  /\ req' = [req EXCEPT ![r] = Catch(r)]
  /\ UNCHANGED <<game_sessions, scores, now, issued, game, gen, probe>>

\* submitScore when platform.env.DB is missing: the check comes before the
\* one of gameId
ReceiveNoDb(r, g, shape, userId) ==
  /\ req[r].pc = "idle"
  /\ LET sub == [gameId |-> g, seed |-> issued[g].seed, shape |-> shape,
                 body |-> NoBody, userId |-> userId, username |-> "neo"]
     IN  req' = [req EXCEPT ![r] = [Fail(r, "no database", 0) EXCEPT !.sub = sub]]
  /\ UNCHANGED <<game_sessions, scores, now, issued, game, gen, probe>>

\* the statement the handler is at throws, with or without its effect on
\* the table
StatementThrows(r, effect) ==
  /\ req[r].pc \in {"select", "delete", "selectBest", "upsert"}
  /\ game_sessions' =
       IF req[r].pc = "delete" /\ effect
       THEN DeleteFrom(game_sessions, req[r].sub.gameId)
       ELSE game_sessions
  /\ scores' =
       IF req[r].pc = "upsert" /\ effect
       THEN UpsertRow(scores,
              [user_id |-> req[r].sub.userId,
               username |-> FinalName(req[r].sub.username),
               score |-> req[r].verdict.serverScore,
               kpm |-> req[r].verdict.kpm])
       ELSE scores
  /\ req' = [req EXCEPT ![r] = Catch(r)]
  /\ UNCHANGED <<now, issued, game, gen, probe>>

\* the message of each failure
Message(reason) ==
  CASE reason = "no database" -> "Database connection failed"
    [] reason = "missing id" -> "Missing session ID"
    [] reason = "invalid session" -> "Invalid or expired session. Please refresh."
    [] reason = "expired" -> "Session expired"
    [] reason = "structure" -> "Invalid data structure"
    [] reason = "duration" -> "Game duration exceeded limit"
    [] reason = "word mismatch" -> "Word mismatch at index"
    [] reason = "time budget" -> "Invalid word start time at index"
    [] reason = "score mismatch" -> "Score mismatch"
    [] reason = "speed" -> "Typing speed exceeds human limits (KPM > 1200)"
    [] reason = "too consistent" -> "Bot detected: input intervals are too consistent"
    [] reason = "burst" -> "Bot detected: impossible burst input"
    [] reason = "internal" -> "Internal server error during verification"

(***************************************************************************)
(* lib/engine: WordManager and GameEngine, and the input handlers of        *)
(* routes/play/+page.svelte.  Time is counted in seconds since startTime:   *)
(* game.elapsed is (Date.now() - startTime) / 1000.                         *)
(***************************************************************************)
\* the three characters the filter of updateActiveList looks for
Mojibake == <<"U00E3", "U0192", "U00BC">>

\* WordManager.updateActiveList, for rawList = RAW_WORDS
wordActiveList == SelectSeq(RAW_WORDS, LAMBDA w : ~ContainsSeq(w.kana, Mojibake))

\* GameEngineClass.CONFIG; COMBO_MULTIPLIER 0.05 is one COMBO_DIVISOR-th
CONFIG ==
  [DEFAULT_TIME |-> 60, MAX_TIME |-> 90, BASE_SCORE_PER_CHAR |-> 5,
   COMBO_DIVISOR |-> 20, PERFECT_SCORE_BONUS |-> 20]

\* the seconds the token request can take
MaxLatency == 1
\* keys are pressed during the first TypingWindow seconds after startTime
TypingWindow == 2
\* keys are pressed again during the last LastSeconds seconds of timeLeft
LastSeconds == 1
\* the number of entries of keyLog
MaxKeys == 5
\* the number of wrong inputs
MaxErrors == 2
\* the number of games the player starts
MaxPlays == 1
\* the number of times the player presses RETRY
MaxRetries == 1

NoWord == [disp |-> "", kana |-> <<>>, tokens |-> <<>>]
NoPRNG == <<>>
NoStats == [set |-> FALSE, score |-> 0, wrong |-> 0]

\* the stores and fields after construction
NewGame ==
           [isPlaying |-> FALSE, isPreparing |-> FALSE, timerId |-> FALSE,
            elapsed |-> 0, timeLeft |-> 60, score |-> 0,
            currentCombo |-> 0, maxCombo |-> 0,
            correctKeys |-> 0, wrongKeys |-> 0, hasErrorInWord |-> FALSE,
            currentWord |-> NoWord, tokenIndex |-> 0, inputBuffer |-> <<>>,
            keyLog |-> <<>>, playedWords |-> <<>>,
            currentGameId |-> 0, gamePRNG |-> NoPRNG, gameStats |-> NoStats,
            message |-> "PRESS START", tokens |-> 0, awaiting |-> 0,
            stale |-> {},
            inputMode |-> "flick", random |-> 1]

ClientInit == game = NewGame

\* GameEngineClass.resetState
resetState(g) ==
  [g EXCEPT !.timerId = FALSE, !.isPlaying = FALSE, !.score = 0,
            !.timeLeft = CONFIG.DEFAULT_TIME, !.elapsed = 0,
            !.correctKeys = 0, !.wrongKeys = 0,
            !.currentCombo = 0, !.maxCombo = 0, !.currentWord = NoWord,
            !.gamePRNG = NoPRNG, !.tokenIndex = 0, !.inputBuffer = <<>>,
            !.hasErrorInWord = FALSE, !.gameStats = NoStats,
            !.keyLog = <<>>, !.playedWords = <<>>]

\* WordManager.getNextWord: the seeded draw when gamePRNG is set, otherwise
\* candidates[Math.floor(Math.random() * candidates.length)], where g.random
\* is that index
getNextWord(g) ==
  IF g.gamePRNG # NoPRNG
  THEN getNextWordSeeded(wordActiveList, g.elapsed, g.gamePRNG)
  ELSE [word |-> wordActiveList[g.random], prng |-> NoPRNG]

\* GameEngineClass.nextWord
nextWord(g) ==
  LET draw == getNextWord(g)
      word == [disp |-> draw.word.disp, kana |-> draw.word.kana,
               tokens |-> tokenize(draw.word.kana)]
  IN  [g EXCEPT !.gamePRNG = draw.prng,
                !.currentWord = word,
                !.playedWords = Append(@, [disp |-> word.disp, kana |-> word.kana,
                                           startTime |-> g.elapsed, isNull |-> FALSE]),
                !.tokenIndex = 0, !.inputBuffer = <<>>, !.hasErrorInWord = FALSE]

\* GameEngineClass.gameOver, for the official list (isCustomCSVStore false)
gameOver(g) ==
  IF ~g.isPlaying THEN g
  ELSE [g EXCEPT !.isPlaying = FALSE, !.timerId = FALSE,
                 !.gameStats = [set |-> TRUE, score |-> g.score, wrong |-> g.wrongKeys],
                 !.message = "VERIFYING SCORE"]

\* an inputError that leaves hasErrorInWord alone: RejectedKeystroke fails
\* with it
inputErrorUnmarked(g) ==
  LET e == [g EXCEPT !.wrongKeys = @ + 1, !.currentCombo = 0]
      next == IF g.timeLeft - 1 > 0 THEN g.timeLeft - 1 ELSE 0
  IN  [(IF next = 0 THEN gameOver(e) ELSE e) EXCEPT !.timeLeft = next]

\* GameEngineClass.inputError
inputError(g) ==
  LET e == [g EXCEPT !.wrongKeys = @ + 1, !.currentCombo = 0, !.hasErrorInWord = TRUE]
      next == IF g.timeLeft - 1 > 0 THEN g.timeLeft - 1 ELSE 0
  IN  [(IF next = 0 THEN gameOver(e) ELSE e) EXCEPT !.timeLeft = next]

\* a wordComplete that adds the time bonus without the ceiling:
\* TimeLeftBounds fails with it
wordCompleteUncapped(g) ==
  LET wordLength == Len(g.currentWord.kana)
      scoreGain == ComboScore(wordLength, g.currentCombo)
      timeBonusValue == IF wordLength \div 2 > 1 THEN wordLength \div 2 ELSE 1
  IN  nextWord(
        IF ~g.hasErrorInWord
        THEN [g EXCEPT !.timeLeft = @ + timeBonusValue,
                       !.score = @ + scoreGain + CONFIG.PERFECT_SCORE_BONUS]
        ELSE [g EXCEPT !.score = @ + scoreGain])

\* GameEngineClass.wordComplete
wordComplete(g) ==
  LET wordLength == Len(g.currentWord.kana)
      scoreGain == ComboScore(wordLength, g.currentCombo)
      timeBonusValue == IF wordLength \div 2 > 1 THEN wordLength \div 2 ELSE 1
      raised == IF g.timeLeft + timeBonusValue < CONFIG.MAX_TIME
                THEN g.timeLeft + timeBonusValue ELSE CONFIG.MAX_TIME
  IN  nextWord(
        IF ~g.hasErrorInWord
        THEN [g EXCEPT !.timeLeft = raised,
                       !.score = @ + scoreGain + CONFIG.PERFECT_SCORE_BONUS]
        ELSE [g EXCEPT !.score = @ + scoreGain])

\* correctKeys++ and the update of currentCombo and maxCombo
Hit(g) ==
  [g EXCEPT !.correctKeys = @ + 1, !.currentCombo = @ + 1,
            !.maxCombo = IF g.currentCombo + 1 > @ THEN g.currentCombo + 1 ELSE @]

\* keyLog.push({ key, time: Date.now() - this.startTime })
Logged(g, key) == [g EXCEPT !.keyLog = Append(@, [key |-> key, time |-> g.elapsed * 1000])]

\* GameEngineClass.processInput
processInput(g, key) ==
  IF g.currentWord = NoWord THEN g
  ELSE
    LET l == Logged(g, key)
        tokens == g.currentWord.tokens
        currToken == TokenAt(tokens, g.tokenIndex + 1)
        nextToken == TokenAt(tokens, g.tokenIndex + 2)
        patterns == getValidPatterns(currToken, nextToken)
        buffer == g.inputBuffer \o key
    IN  IF SomeStartsWith(patterns, buffer)
        THEN LET h == [Hit(l) EXCEPT !.inputBuffer = buffer]
             IN  IF Includes(patterns, buffer) /\ ~isN_Ambiguity(currToken, buffer, nextToken)
                 THEN LET a == [h EXCEPT !.tokenIndex = @ + 1, !.inputBuffer = <<>>]
                      IN  IF a.tokenIndex >= Len(tokens) THEN wordComplete(a) ELSE a
                 ELSE h
        ELSE inputError(l)

\* GameEngineClass.processFlickInput
processFlickInput(g, hiragana) ==
  IF g.currentWord = NoWord THEN g
  ELSE
    LET l == Logged(g, hiragana)
        tokens == g.currentWord.tokens
        currToken == TokenAt(tokens, g.tokenIndex + 1)
    IN  IF currToken = hiragana
        THEN LET a == [Hit(l) EXCEPT !.tokenIndex = @ + 1]
             IN  IF a.tokenIndex >= Len(tokens) THEN wordComplete(a) ELSE a
        ELSE inputError(l)

\* GameEngineClass.start up to the token request: the guard, isPreparing and
\* resetState
Start ==
  /\ Len(wordActiveList) # 0
  /\ ~game.isPreparing
  /\ ~game.isPlaying
  /\ game.tokens < MaxPlays
  /\ game' = [resetState(game) EXCEPT !.isPreparing = TRUE, !.message = "PREPARING SESSION"]
  /\ UNCHANGED <<game_sessions, scores, now, issued, req, gen, probe>>

\* the token request is on its way: time passes
Wait ==
  /\ game.isPreparing
  /\ game.elapsed < MaxLatency
  /\ game' = [game EXCEPT !.elapsed = @ + 1]
  /\ UNCHANGED <<game_sessions, scores, now, issued, req, gen, probe>>

\* the server runs getGameToken for the request of start
ServeToken(seed, sweep) ==
  /\ game.isPreparing
  /\ Len(issued) = game.tokens
  /\ GetGameToken(seed, sweep)

\* GameEngineClass.start from the token response on: currentGameId, setSeed,
\* nextWord, isPlaying and the timer
TokenReceived ==
  /\ game.isPreparing
  /\ Len(issued) > game.tokens
  /\ issued[Len(issued)].success
  /\ LET token == issued[Len(issued)]
         seeded == [game EXCEPT !.currentGameId = token.gameId,
                                !.gamePRNG = Word32(token.seed),
                                !.tokens = Len(issued),
                                !.isPreparing = FALSE]
     IN  game' = [nextWord(seeded) EXCEPT !.isPlaying = TRUE, !.timerId = TRUE,
                                          !.message = ""]
  /\ UNCHANGED <<game_sessions, scores, now, issued, req, gen, probe>>

\* the server runs getGameToken without platform.env.DB for the request of
\* start
ServeNoToken ==
  /\ game.isPreparing
  /\ Len(issued) = game.tokens
  /\ GetGameTokenNoDb

\* GameEngineClass.start when fetch throws, or when the failure of
\* getGameToken comes with a status that is not ok: the catch block
StartCatch ==
  /\ game.isPreparing
  /\ Len(issued) > game.tokens => ~issued[Len(issued)].success
  /\ game' = [game EXCEPT !.message = "SESSION ERROR", !.isPreparing = FALSE,
                          !.tokens = Len(issued)]
  /\ UNCHANGED <<game_sessions, scores, now, issued, req, gen, probe>>

\* GameEngineClass.start when the failure of getGameToken comes with an ok
\* status, as the result { type: "failure", status, data } of a form
\* action: there is no gameId and no number seed in it, and nothing throws
StartUnseeded ==
  /\ game.isPreparing
  /\ Len(issued) > game.tokens
  /\ ~issued[Len(issued)].success
  /\ LET unseeded == [game EXCEPT !.currentGameId = 0,
                                  !.tokens = Len(issued),
                                  !.isPreparing = FALSE]
     IN  game' = [nextWord(unseeded) EXCEPT !.isPlaying = TRUE, !.timerId = TRUE,
                                            !.message = ""]
  /\ UNCHANGED <<game_sessions, scores, now, issued, req, gen, probe>>

\* the indices Math.random gives the unseeded getNextWord: the first and the
\* last word of the list
RandomPicks == {1, Len(wordActiveList)}

\* Math.random: its next value is any
MathRandom(pick) ==
  /\ game.isPlaying
  /\ game.gamePRNG = NoPRNG
  /\ game.random # pick
  /\ game' = [game EXCEPT !.random = pick]
  /\ UNCHANGED <<game_sessions, scores, now, issued, req, gen, probe>>

\* a tick that does nothing at the last second: GameEnds fails with it
tickStalled(g) ==
  IF g.timeLeft <= 1 THEN g
  ELSE [g EXCEPT !.elapsed = @ + 1, !.timeLeft = @ - 1]

\* the callback of timeLeft.update in tick, one second after the previous
\* one
tick(g) ==
  LET e == [g EXCEPT !.elapsed = @ + 1]
  IN  IF e.timeLeft <= 1
      THEN [gameOver(e) EXCEPT !.timeLeft = 0]
      ELSE [e EXCEPT !.timeLeft = @ - 1]

\* GameEngineClass.tick, called by the interval timer
Tick ==
  /\ game.timerId
  /\ game' = tick(game)
  /\ UNCHANGED <<game_sessions, scores, now, issued, req, gen, probe>>

\* handlers without the test of $isPlaying: FrozenAtExpiry fails with them
TypingWhenever ==
  /\ game.elapsed <= TypingWindow \/ game.timeLeft <= LastSeconds
  /\ Len(game.keyLog) < MaxKeys
  /\ game.wrongKeys < MaxErrors

\* the test of $isPlaying that opens handleHiddenInput, handleCompositionUpdate
\* and handleCompositionEnd, and the player at the keys: during the first
\* seconds of the game and during its last ones
Typing ==
  /\ game.isPlaying
  /\ game.elapsed <= TypingWindow \/ game.timeLeft <= LastSeconds
  /\ Len(game.keyLog) < MaxKeys
  /\ game.wrongKeys < MaxErrors

\* the token the player has to enter
TargetToken == TokenAt(game.currentWord.tokens, game.tokenIndex + 1)

\* the characters that extend inputBuffer towards a pattern of the token,
\* and one that extends none
RomajiKeys ==
  LET patterns == getValidPatterns(TargetToken,
                    TokenAt(game.currentWord.tokens, game.tokenIndex + 2))
      n == Len(game.inputBuffer)
  IN  {patterns[i][n + 1] :
         i \in {j \in 1..Len(patterns) :
                  Len(patterns[j]) > n /\ StartsWith(patterns[j], game.inputBuffer)}}
      \cup {"0"}

\* handleHiddenInput in halfwidth mode: one character of [a-z0-9-]
HandleHiddenInput(char) ==
  /\ Typing
  /\ game.inputMode = "halfwidth"
  /\ game' = processInput(game, <<char>>)
  /\ UNCHANGED <<game_sessions, scores, now, issued, req, gen, probe>>

\* the texts a composition shows: the token, its first character, another kana
FlickTexts == {TargetToken, <<"NU">>} \cup
                (IF TargetToken = NoToken THEN {} ELSE {<<TargetToken[1]>>})

\* handleCompositionUpdate
HandleCompositionUpdate(inputText) ==
  /\ Typing
  /\ game.inputMode = "flick"
  /\ game.currentWord # NoWord
  /\ game.tokenIndex < Len(game.currentWord.tokens)
  /\ game' = IF inputText = TargetToken THEN processFlickInput(game, TargetToken)
             ELSE IF ~StartsWith(TargetToken, inputText) /\ Len(inputText) > 0
             THEN inputError(game)
             ELSE game
  /\ UNCHANGED <<game_sessions, scores, now, issued, req, gen, probe>>

\* handleCompositionEnd with a text
HandleCompositionEnd(finalText) ==
  /\ Typing
  /\ game.inputMode = "flick"
  /\ Len(finalText) > 0
  /\ game.currentWord # NoWord
  /\ game.tokenIndex < Len(game.currentWord.tokens)
  /\ game' = IF finalText # TargetToken THEN inputError(game) ELSE game
  /\ UNCHANGED <<game_sessions, scores, now, issued, req, gen, probe>>

\* toggleInputMode: the button is shown before the first game
ToggleInputMode ==
  /\ ~game.isPlaying
  /\ ~game.gameStats.set
  /\ game' = [game EXCEPT !.inputMode = IF @ = "flick" THEN "halfwidth" ELSE "flick"]
  /\ UNCHANGED <<game_sessions, scores, now, issued, req, gen, probe>>

\* the body GameEngineClass.submitScore and the page's callback build
ClientPayload(g) ==
  [score |-> g.gameStats.score, scoreIsNumber |-> TRUE,
   keyLog |-> g.keyLog, keyLogIsArray |-> TRUE,
   playedWords |-> g.playedWords, playedWordsIsArray |-> TRUE,
   duration |-> g.elapsed]

\* the page's effect on the end of the game, and GameEngineClass.submitScore
\* up to the request
Submit(r) ==
  /\ game.gameStats.set
  /\ game.message = "VERIFYING SCORE"
  /\ game.awaiting = 0
  /\ game.currentGameId # 0
  /\ Parse(r, game.currentGameId, "client", ClientPayload(game), UsrA)
  /\ game' = [game EXCEPT !.awaiting = r]
  /\ UNCHANGED <<game_sessions, scores, now, issued, gen, probe>>

\* GameEngineClass.submitScore from the response on
Verified ==
  /\ game.awaiting # 0
  /\ req[game.awaiting].pc = "done"
  /\ game' = [game EXCEPT !.awaiting = 0, !.currentGameId = 0,
                          !.message = IF req[game.awaiting].result.success
                                      THEN "SCORE VERIFIED" ELSE "VERIFICATION FAILED"]
  /\ UNCHANGED <<game_sessions, scores, now, issued, req, gen, probe>>

\* the page's effect has a call of submitScore to make: gameOver has set
\* gameStats and the message, and the call has not been made
EffectDue ==
  /\ game.gameStats.set
  /\ game.message = "VERIFYING SCORE"
  /\ game.awaiting = 0
  /\ game.currentGameId # 0

\* the RETRY button, shown with the result of a game: GameEngineClass.start
\* up to the token request.  resetState leaves currentGameId alone; a call
\* of submitScore that still waits for its response keeps waiting
Retry ==
  /\ Len(wordActiveList) # 0
  /\ game.gameStats.set
  /\ ~EffectDue
  /\ ~game.isPreparing
  /\ ~game.isPlaying
  /\ game.tokens < MaxPlays + MaxRetries
  /\ game' = [resetState(game) EXCEPT !.isPreparing = TRUE,
                                      !.message = "PREPARING SESSION",
                                      !.stale = @ \cup ({game.awaiting} \ {0}),
                                      !.awaiting = 0]
  /\ UNCHANGED <<game_sessions, scores, now, issued, req, gen, probe>>

\* GameEngineClass.submitScore from the response on, for the call of an
\* earlier game
VerifiedLate(r) ==
  /\ r \in game.stale
  /\ req[r].pc = "done"
  /\ ~EffectDue
  /\ game' = [game EXCEPT !.stale = @ \ {r}, !.currentGameId = 0,
                          !.message = IF req[r].result.success
                                      THEN "SCORE VERIFIED" ELSE "VERIFICATION FAILED"]
  /\ UNCHANGED <<game_sessions, scores, now, issued, req, gen, probe>>

\* one player, the token and submission handlers of the server
GameNext ==
  \/ Start
  \/ Wait
  \/ \E seed \in Seeds, sweep \in BOOLEAN : ServeToken(seed, sweep)
  \/ TokenReceived
  \/ Tick
  \/ \E char \in RomajiKeys : HandleHiddenInput(char)
  \/ \E inputText \in FlickTexts : HandleCompositionUpdate(inputText)
  \/ \E finalText \in FlickTexts : HandleCompositionEnd(finalText)
  \/ ToggleInputMode
  \/ \E r \in Reqs : Submit(r)
  \/ \E r \in Reqs : SelectSession(r)
  \/ \E r \in Reqs : DeleteSession(r)
  \/ \E r \in Reqs : SelectBest(r)
  \/ \E r \in Reqs : Upsert(r)
  \/ Verified

\* one player whose token request can fail
StartNext ==
  \/ Start
  \/ Wait
  \/ \E seed \in Seeds : ServeToken(seed, FALSE)
  \/ ServeNoToken
  \/ TokenReceived
  \/ StartCatch
  \/ StartUnseeded
  \/ \E pick \in RandomPicks : MathRandom(pick)
  \/ Tick
  \/ \E char \in RomajiKeys : HandleHiddenInput(char)
  \/ \E inputText \in FlickTexts : HandleCompositionUpdate(inputText)
  \/ \E finalText \in FlickTexts : HandleCompositionEnd(finalText)
  \/ ToggleInputMode

\* one player who does not type and presses RETRY after a game
RetryNext ==
  \/ Start
  \/ Retry
  \/ Wait
  \/ \E seed \in Seeds : ServeToken(seed, FALSE)
  \/ TokenReceived
  \/ Tick
  \/ \E r \in Reqs : Submit(r)
  \/ \E r \in Reqs : SelectSession(r)
  \/ \E r \in Reqs : DeleteSession(r)
  \/ \E r \in Reqs : SelectBest(r)
  \/ \E r \in Reqs : Upsert(r)
  \/ Verified
  \/ \E r \in Reqs : VerifiedLate(r)

(***************************************************************************)
(* word-utils.ts: createPRNG.  Every call returns a closure over its own    *)
(* variable (the parameter seed of that call).  gen.fns are the closures    *)
(* returned so far, with the seed each was made from and the elapsed times  *)
(* it was drawn at and the words it gave; gen.cells are the variables.      *)
(***************************************************************************)
\* the number of generators
MaxGens == 3
\* the number of draws of one generator
MaxDraws == 2
\* the elapsed times of the draws: two difficulty bands
ElapsedTimes == {0, 50}

\* a variable all closures would share: ReplayDeterminism fails with it
SharedCell(n) == 1

\* the variable the n-th closure is closed over: its own
StateCell(n) == n

GenInit == gen = [fns |-> <<>>, cells |-> <<>>]

\* createPRNG(seed)
createPRNG(seed) ==
  /\ Len(gen.fns) < MaxGens
  /\ LET n == Len(gen.fns) + 1
     IN  gen' = [fns |-> Append(gen.fns, [seed |-> seed, cell |-> StateCell(n),
                                          times |-> <<>>, words |-> <<>>]),
                 cells |-> [Append(gen.cells, Word32(seed))
                              EXCEPT ![StateCell(n)] = Word32(seed)]]
  /\ UNCHANGED <<game_sessions, scores, now, issued, req, game, probe>>

\* getNextWordSeeded(OFFICIAL_WORDS, elapsedTime, prng) for the i-th closure
DrawWord(i, elapsedTime) ==
  /\ i \in 1..Len(gen.fns)
  /\ Len(gen.fns[i].words) < MaxDraws
  /\ LET draw == getNextWordSeeded(OFFICIAL_WORDS, elapsedTime,
                                   gen.cells[gen.fns[i].cell])
     IN  gen' = [fns |-> [gen.fns EXCEPT ![i].times = Append(@, elapsedTime),
                                         ![i].words = Append(@, draw.word)],
                 cells |-> [gen.cells EXCEPT ![gen.fns[i].cell] = draw.prng]]
  /\ UNCHANGED <<game_sessions, scores, now, issued, req, game, probe>>

(***************************************************************************)
(* The word completion and the match step as functions: the client's       *)
(* (wordComplete, processInput) and the server's (the end of the for loop,  *)
(* the romaji branch of the while loop), applied to the same inputs.        *)
(***************************************************************************)
NoProbe == [kind |-> "none"]

ProbeInit == probe = NoProbe

\* a word of wordLength kana
WordOfLength(wordLength) ==
  [disp |-> "word", kana |-> [i \in 1..wordLength |-> "NE"],
   tokens |-> [i \in 1..wordLength |-> <<"NE">>]]

\* the score wordComplete adds when the word is complete at this combo
ClientGain(wordLength, combo, hasErrorInWord) ==
  wordComplete([NewGame EXCEPT !.isPlaying = TRUE,
                               !.currentWord = WordOfLength(wordLength),
                               !.tokenIndex = wordLength,
                               !.currentCombo = combo,
                               !.hasErrorInWord = hasErrorInWord]).score

\* the score the replay adds when the while loop leaves the word complete
\* at this combo
ServerGain(wordLength, combo, hasErrorInWord) ==
  AfterWord([prng |-> Word32(0), serverScore |-> 0, currentCombo |-> 0,
             correctKeys |-> 0, keyIdx |-> 0, totalTimeBonuses |-> 0],
            Word32(0), wordLength, WordOfLength(wordLength).tokens,
            [st |-> [tokenIndex |-> wordLength, inputBuffer |-> <<>>,
                     hasErrorInWord |-> hasErrorInWord,
                     correctKeys |-> combo, currentCombo |-> combo],
             keyIdx |-> combo]).serverScore

\* a word completed at a combo, with or without an error; without one,
\* every kana of the word has added to the combo
CompleteWord(wordLength, combo, hasErrorInWord) ==
  /\ probe = NoProbe
  /\ ~hasErrorInWord => combo >= wordLength
  /\ probe' = [kind |-> "complete", wordLength |-> wordLength, combo |-> combo,
               hasErrorInWord |-> hasErrorInWord,
               client |-> ClientGain(wordLength, combo, hasErrorInWord),
               server |-> ServerGain(wordLength, combo, hasErrorInWord)]
  /\ UNCHANGED <<game_sessions, scores, now, issued, req, game, gen>>

\* what changes timeLeft: the timer, a wrong input, a word completed with or
\* without an error, and resetState
ClockOps == {"tick", "error", "perfect", "flawed", "reset"}

\* the running engine with timeLeft seconds left, at the last token of a
\* word of wordLength kana
EngineWithTime(timeLeft, wordLength, hasErrorInWord) ==
  [NewGame EXCEPT !.isPlaying = TRUE, !.timerId = TRUE,
                  !.timeLeft = timeLeft,
                  !.currentWord = WordOfLength(wordLength),
                  !.tokenIndex = wordLength - 1,
                  !.hasErrorInWord = hasErrorInWord]

\* one of the operations on the running engine with timeLeft seconds left
ClockStep(timeLeft, op, wordLength) ==
  /\ probe = NoProbe
  /\ LET g == EngineWithTime(timeLeft, wordLength, op = "flawed")
         after == CASE op = "tick" -> tick(g)
                    [] op = "error" -> processInput(g, <<"0">>)
                    [] op = "perfect" -> processFlickInput(g, <<"NE">>)
                    [] op = "flawed" -> processFlickInput(g, <<"NE">>)
                    [] OTHER -> resetState(g)
     IN  probe' = [kind |-> "clock", op |-> op, timeLeft |-> timeLeft,
                   wordLength |-> wordLength,
                   after |-> [timeLeft |-> after.timeLeft,
                              isPlaying |-> after.isPlaying,
                              timerId |-> after.timerId,
                              words |-> Len(after.playedWords)]]
  /\ UNCHANGED <<game_sessions, scores, now, issued, req, game, gen>>

\* every operation at every timeLeft of the running engine
TimeNext ==
  \E timeLeft \in 1..CONFIG.MAX_TIME, op \in ClockOps, wordLength \in 1..MaxWordLen :
    ClockStep(timeLeft, op, wordLength)

\* processInput for each key in turn
RECURSIVE TypeKeys(_, _)
TypeKeys(g, keys) ==
  IF keys = <<>> THEN g ELSE TypeKeys(processInput(g, <<Head(keys)>>), Tail(keys))

\* a word of the official list typed from combo 0 with the keys of its
\* first patterns: what the engine and what the replay make of it
TypeWord(w) ==
  /\ probe = NoProbe
  /\ LET word == OFFICIAL_WORDS[w]
         tokens == tokenize(word.kana)
         keys == CanonicalKeys(word.kana)
         start == [prng |-> Word32(0), serverScore |-> 0, currentCombo |-> 0,
                   correctKeys |-> 0, keyIdx |-> 0, totalTimeBonuses |-> 0]
         keyLog == [k \in 1..Len(keys) |-> [key |-> <<keys[k]>>, time |-> 0]]
     IN  probe' = [kind |-> "typed", word |-> word.disp, wordLength |-> Len(word.kana),
                   combo |-> Len(keys), hasErrorInWord |-> FALSE,
                   client |-> TypeKeys([NewGame EXCEPT !.isPlaying = TRUE,
                                          !.currentWord = [disp |-> word.disp,
                                                           kana |-> word.kana,
                                                           tokens |-> tokens]],
                                       keys).score,
                   server |-> AfterWord(start, Word32(0), Len(word.kana), tokens,
                                SimulateWord(tokens, keyLog, 0, WordStart(start))).serverScore]
  /\ UNCHANGED <<game_sessions, scores, now, issued, req, game, gen>>

\* words with the moraic n in every place: last, before a consonant, before
\* a vowel, before n, before another moraic n, before a fused token
NasalWords ==
  << [disp |-> "hon",    kana |-> <<"HO", "NN">>],
     [disp |-> "sanpo",  kana |-> <<"SA", "NN", "PO">>],
     [disp |-> "kinen",  kana |-> <<"KI", "NN", "E", "NN">>],
     [disp |-> "onna",   kana |-> <<"O", "NN", "NA">>],
     [disp |-> "nnn",    kana |-> <<"NN", "NN">>],
     [disp |-> "kinyuu", kana |-> <<"KI", "NN", "NI", "xYU", "U">>],
     [disp |-> "kanja",  kana |-> <<"KA", "NN", "ZI", "xYA">>] >>

\* the words the match step is applied to
MatchWords == OFFICIAL_WORDS \o NasalWords

\* the keys given to the match step: letters, and a key of two characters
ProbeKeys ==
  {<<c>> : c \in {"a", "i", "u", "e", "o", "k", "n", "y", "t", "h", "s", "g", "r", "x"}}
    \cup {<<"k", "y">>}

\* the buffers: what can have been typed of a pattern, and a buffer no
\* pattern starts with
ProbeBuffers(patterns) ==
  UNION {{SubSeq(patterns[i], 1, n) :
            n \in {k \in 0..MaxBuffer : k <= Len(patterns[i])}} :
          i \in 1..Len(patterns)}
    \cup {<<"q">>}

\* processInput and the romaji branch of the replay, for the key typed
\* after buffer at token tokenIndex (0-based) of a word of the list
MatchKey(w, tokenIndex, buffer, key) ==
  /\ probe = NoProbe
  /\ LET word == MatchWords[w]
         tokens == tokenize(word.kana)
         g == processInput([NewGame EXCEPT !.isPlaying = TRUE,
                              !.currentWord = [disp |-> word.disp, kana |-> word.kana,
                                               tokens |-> tokens],
                              !.tokenIndex = tokenIndex,
                              !.inputBuffer = buffer], key)
         st == ServerKeyStep([tokenIndex |-> tokenIndex, inputBuffer |-> buffer,
                              hasErrorInWord |-> FALSE, correctKeys |-> 0,
                              currentCombo |-> 0], tokens, key)
     IN  probe' = [kind |-> "match", w |-> w, tokens |-> tokens,
                   tokenIndex |-> tokenIndex, buffer |-> buffer, key |-> key,
                   client |-> [accepted |-> g.correctKeys = 1,
                               rejected |-> g.wrongKeys = 1,
                               tokenIndex |-> g.tokenIndex,
                               inputBuffer |-> g.inputBuffer,
                               wordDone |-> g.playedWords # <<>>],
                   server |-> [accepted |-> st.correctKeys = 1,
                               rejected |-> st.hasErrorInWord,
                               tokenIndex |-> st.tokenIndex,
                               inputBuffer |-> st.inputBuffer,
                               wordDone |-> st.tokenIndex >= Len(tokens)]]
  /\ UNCHANGED <<game_sessions, scores, now, issued, req, game, gen>>

(***************************************************************************)
(* word-utils.ts: tokenize, getValidPatterns and parseWords as functions    *)
(* applied to drawn inputs.                                                 *)
(***************************************************************************)
\* the length of the strings given to tokenize
MaxKana == 4

\* the characters of those strings: a kana, a glide, the small tsu, the
\* small wa, a katakana small e and a character the table does not know
TokenizeChars == {"KI", "xYA", "xTU", "xWA", "kxE", "?"}

\* every string of at most n of these characters
RECURSIVE StringsUpTo(_, _)
StringsUpTo(chars, n) ==
  IF n = 0 THEN {<<>>}
  ELSE LET shorter == StringsUpTo(chars, n - 1)
       IN  shorter \cup {Append(str, c) : str \in shorter, c \in chars}

\* KanaEngine.tokenize(kanaWord)
Tokenize(kanaWord) ==
  /\ probe = NoProbe
  /\ probe' = [kind |-> "tokens", kanaWord |-> kanaWord, tokens |-> tokenize(kanaWord)]
  /\ UNCHANGED <<game_sessions, scores, now, issued, req, game, gen>>

\* the characters with an entry of their own in the table
TableChars == {t[1] : t \in {u \in DOMAIN KanaTable : Len(u) = 1}}

\* the tokens given to getValidPatterns: the keys of the table, every
\* character before every small character (what tokenize can fuse), and
\* tokens the table does not have
PatternTokens ==
  DOMAIN KanaTable
    \cup {<<c, small>> : c \in TableChars, small \in SmallChars}
    \cup {<<"?">>, <<"?", "xYA">>, <<"KI", "?">>, <<"xTU", "xTU">>}

\* KanaEngine.getValidPatterns(token, nextToken)
ValidPatterns(token, nextToken) ==
  /\ probe = NoProbe
  /\ probe' = [kind |-> "patterns", token |-> token, nextToken |-> nextToken,
               patterns |-> getValidPatterns(token, nextToken)]
  /\ UNCHANGED <<game_sessions, scores, now, issued, req, game, gen>>

\* the next tokens given with a token: every token after the small tsu,
\* and for the others none, one of the table and one the table lacks
NextTokens(token) ==
  IF token = <<"xTU">> THEN PatternTokens \cup {NoToken}
  ELSE {NoToken, <<"TA">>, <<"?">>}

\* the number of lines of the texts given to parseWords
MaxLines == 3

\* the lines of those texts: blank lines, header-like lines, words, and
\* lines with each defect
LineShapes ==
  { <<>>,
    <<" ">>,
    <<"CR">>,
    <<"d", ",", "k">>,
    <<"n", ",", "NE", "KO">>,
    <<"NE", ",", "NE">>,
    <<"n">>,
    <<",", "NE">>,
    <<"n", ",", " ">>,
    <<"n", ",", "NE", "CHOON">>,
    <<"n", ",", "NE", " ", "KO">>,
    <<"k", ",", "KI", "xYA", ",", "x">>,
    <<" ", "n", " ", ",", " ", "NE", " ">> }

\* lines.join(sep)
RECURSIVE JoinLines(_, _)
JoinLines(lines, sep) ==
  IF Len(lines) = 1 THEN lines[1]
  ELSE lines[1] \o sep \o JoinLines(Tail(lines), sep)

\* the texts of at most MaxLines lines, with either line ending: the lines
\* and what stands between them
ParseTexts ==
  {<<lines, sep>> :
     lines \in UNION {[1..n -> LineShapes] : n \in 1..MaxLines},
     sep \in {<<"LF">>, <<"CR", "LF">>}}

\* the kana fields of the one-line texts: every string of at most two
\* characters of the table, of the katakana small e and of an unknown
\* character, and every such string after the small tsu
KanaFields ==
  LET strs == StringsUpTo(TableChars \cup {"kxE", "?"}, 2)
  IN  (strs \ {<<>>}) \cup {<<"xTU">> \o str : str \in strs}

\* one line, display and kana
WordTexts == {<<<<<<"w", ",">> \o kana>>, <<"LF">>>> : kana \in KanaFields}

\* parseWords(text) for the text of these lines
ParseWords(lines, sep) ==
  /\ probe = NoProbe
  /\ LET text == JoinLines(lines, sep)
         parsed == parseWords(text)
     IN  probe' = [kind |-> "parsed", lines |-> lines, text |-> text,
                   words |-> parsed.words, errors |-> parsed.errors]
  /\ UNCHANGED <<game_sessions, scores, now, issued, req, game, gen>>

\* the three functions on their inputs
KanaNext ==
  \/ probe = NoProbe /\ \E kanaWord \in StringsUpTo(TokenizeChars, MaxKana) :
                          Tokenize(kanaWord)
  \/ probe = NoProbe /\ \E token \in PatternTokens :
                          \E nextToken \in NextTokens(token) :
                            ValidPatterns(token, nextToken)
  \/ probe = NoProbe /\ \E text \in ParseTexts \cup WordTexts :
                          ParseWords(text[1], text[2])

(***************************************************************************)
(* word-utils.ts: getNextWordSeeded as a function of the pool, the elapsed  *)
(* time and the generator.                                                  *)
(***************************************************************************)
\* the number of words of a pool
MaxPool == 3

\* the words of the pools: 1 to 7 and 21 characters, three of them with
\* fused tokens (3 characters in 2 tokens, 4 in 2, 6 in 3)
PoolWords ==
  { [disp |-> "e", kana |-> <<"E">>],
    [disp |-> "neko", kana |-> <<"NE", "KO">>],
    [disp |-> "kyaku", kana |-> <<"KI", "xYA", "KU">>],
    [disp |-> "kyakyu", kana |-> <<"KI", "xYA", "KI", "xYU">>],
    [disp |-> "tamanegi", kana |-> <<"TA", "MA", "NE", "GI">>],
    [disp |-> "kyakyukyo", kana |-> <<"KI", "xYA", "KI", "xYU", "KI", "xYO">>],
    [disp |-> "sakuratamanegi", kana |-> <<"SA", "KU", "RA", "TA", "MA", "NE", "GI">>],
    [disp |-> "nenene", kana |-> [i \in 1..21 |-> "NE"]] }

\* the pools: every list of at most MaxPool of these words, the empty one
\* included
Pools == UNION {[1..n -> PoolWords] : n \in 0..MaxPool}

\* the elapsed times: below, at and above every threshold
PoolTimes == {0, 19, 20, 39, 40, 59, 60, 61}

\* the seeds of the generator
PoolSeeds == {0, 7, 12345}

\* getNextWordSeeded(activeList, elapsedTime, createPRNG(seed))
NextWordSeeded(activeList, elapsedTime, seed) ==
  /\ probe = NoProbe
  /\ probe' = [kind |-> "drawn", activeList |-> activeList,
               elapsedTime |-> elapsedTime, seed |-> seed,
               word |-> getNextWordSeeded(activeList, elapsedTime, Word32(seed)).word,
               prng |-> getNextWordSeeded(activeList, elapsedTime, Word32(seed)).prng]
  /\ UNCHANGED <<game_sessions, scores, now, issued, req, game, gen>>

\* the number of words of a game that is replayed
MaxPlayed == 3

\* the elapsed times at which the words of a game start: none goes back
GameStarts ==
  {starts \in UNION {[1..n -> {0, 19, 20, 45, 61}] : n \in 1..MaxPlayed} :
     \A i \in 1..(Len(starts) - 1) : starts[i] <= starts[i + 1]}

\* nextWord at each of the elapsed times starts[1..n] in turn
RECURSIVE NextWords(_, _, _)
NextWords(g, starts, n) ==
  IF n = 0 THEN g
  ELSE nextWord([NextWords(g, starts, n - 1) EXCEPT !.elapsed = starts[n]])

\* the keys of the first patterns of those of the first n words that have
\* tokens of the table only
RECURSIVE FirstPatternKeys(_, _)
FirstPatternKeys(words, n) ==
  IF n = 0 THEN <<>>
  ELSE IF \E i \in 1..Len(tokenize(words[n].kana)) :
            TableOf(tokenize(words[n].kana)[i]) = <<>>
  THEN FirstPatternKeys(words, n - 1)
  ELSE FirstPatternKeys(words, n - 1) \o CanonicalKeys(words[n].kana)

\* a game seeded with seed whose words start at starts: gamePRNG after each
\* nextWord, and the generator of the replay of the game's playedWords and
\* of the keys of their first patterns after each turn of its for loop
PlayAndReplay(seed, starts) ==
  /\ probe = NoProbe
  /\ LET g0 == [NewGame EXCEPT !.isPlaying = TRUE, !.gamePRNG = Word32(seed)]
         words == NextWords(g0, starts, Len(starts)).playedWords
         sub == Timed(words, FirstPatternKeys(words, Len(words)), "human")
         before == [verdict |-> "replayed", index |-> 0,
                    acc |-> [prng |-> Word32(seed), serverScore |-> 0,
                             currentCombo |-> 0, correctKeys |-> 0, keyIdx |-> 0,
                             totalTimeBonuses |-> 0]]
     IN  probe' = [kind |-> "generators", seed |-> seed, starts |-> starts,
                   client |-> [i \in 1..Len(starts) |->
                                 NextWords(g0, starts, i).gamePRNG],
                   played |-> [i \in 1..Len(starts) |->
                                 Len(NextWords(g0, starts, i).playedWords)],
                   server |-> [i \in 1..Len(starts) |->
                                 LET after == ReplayFrom(sub, 0, i, before)
                                 IN  [reached |-> after.verdict = "replayed"
                                                    /\ after.index = i,
                                      prng |-> after.acc.prng]]]
  /\ UNCHANGED <<game_sessions, scores, now, issued, req, game, gen>>

\* every pool, elapsed time and seed, and every game
PoolNext ==
  \/ probe = NoProbe /\ \E activeList \in Pools, elapsedTime \in PoolTimes, seed \in PoolSeeds :
                         NextWordSeeded(activeList, elapsedTime, seed)
  \/ probe = NoProbe /\ \E seed \in PoolSeeds, starts \in GameStarts :
                         PlayAndReplay(seed, starts)

\* the characters that extend buffer towards a pattern of token tokenIndex
\* (0-based) of tokens, each as a key
ExtendingKeys(tokens, tokenIndex, buffer) ==
  LET patterns == getValidPatterns(TokenAt(tokens, tokenIndex + 1),
                                   TokenAt(tokens, tokenIndex + 2))
      n == Len(buffer)
  IN  {<<patterns[i][n + 1]>> :
         i \in {j \in 1..Len(patterns) :
                  Len(patterns[j]) > n /\ StartsWith(patterns[j], buffer)}}

\* the engine with the word w of the list as its current word, at token
\* tokenIndex with buffer typed
EngineAt(w, tokenIndex, buffer) ==
  [NewGame EXCEPT !.isPlaying = TRUE,
                  !.currentWord = [disp |-> MatchWords[w].disp,
                                   kana |-> MatchWords[w].kana,
                                   tokens |-> tokenize(MatchWords[w].kana)],
                  !.tokenIndex = tokenIndex,
                  !.inputBuffer = buffer]

\* the variables of the replay loop at token tokenIndex with buffer typed
ReplayAt(tokenIndex, buffer) ==
  [tokenIndex |-> tokenIndex, inputBuffer |-> buffer, hasErrorInWord |-> FALSE,
   correctKeys |-> 0, currentCombo |-> 0]

\* the keys one word takes at most
MaxWordKeys == 16

\* processInput with a key that extends the buffer, again and again until
\* the word is completed
RECURSIVE FinishWord(_, _)
FinishWord(g, fuel) ==
  IF g.playedWords # <<>> \/ fuel = 0 THEN g
  ELSE LET keys == ExtendingKeys(g.currentWord.tokens, g.tokenIndex, g.inputBuffer)
       IN  IF keys = {} THEN g
           ELSE FinishWord(processInput(g, CHOOSE key \in keys : TRUE), fuel - 1)

\* the replay loop with a key that extends the buffer, again and again until
\* the loop ends
RECURSIVE FinishReplay(_, _, _)
FinishReplay(st, tokens, fuel) ==
  IF st.tokenIndex >= Len(tokens) \/ fuel = 0 THEN st
  ELSE LET keys == ExtendingKeys(tokens, st.tokenIndex, st.inputBuffer)
       IN  IF keys = {} THEN st
           ELSE FinishReplay(ServerKeyStep(st, tokens, CHOOSE key \in keys : TRUE),
                             tokens, fuel - 1)

\* the flick branch of the replay for a key of one kana typed after buffer
\* at token tokenIndex (0-based) of a word of the list, and
\* processFlickInput in flick mode, where inputBuffer is empty
FlickKey(w, tokenIndex, buffer, hiragana) ==
  /\ probe = NoProbe
  /\ LET tokens == tokenize(MatchWords[w].kana)
         g == processFlickInput(EngineAt(w, tokenIndex, <<>>), hiragana)
         st == ServerKeyStep(ReplayAt(tokenIndex, buffer), tokens, hiragana)
     IN  probe' = [kind |-> "flick", w |-> w, tokens |-> tokens,
                   tokenIndex |-> tokenIndex, buffer |-> buffer, key |-> hiragana,
                   client |-> [accepted |-> g.correctKeys = 1,
                               rejected |-> g.wrongKeys = 1,
                               tokenIndex |-> g.tokenIndex,
                               inputBuffer |-> g.inputBuffer,
                               wordDone |-> g.playedWords # <<>>],
                   server |-> [accepted |-> st.correctKeys = 1,
                               rejected |-> st.hasErrorInWord,
                               tokenIndex |-> st.tokenIndex,
                               inputBuffer |-> st.inputBuffer,
                               wordDone |-> st.tokenIndex >= Len(tokens)]]
  /\ UNCHANGED <<game_sessions, scores, now, issued, req, game, gen>>

\* processInput for the characters of pattern p of the patterns of token
\* tokenIndex (0-based) of a word of the list, one key each, from an empty
\* buffer: the engine after each key
TypePattern(w, tokenIndex, p) ==
  /\ probe = NoProbe
  /\ LET word == MatchWords[w]
         tokens == tokenize(word.kana)
         pattern == getValidPatterns(TokenAt(tokens, tokenIndex + 1),
                                     TokenAt(tokens, tokenIndex + 2))[p]
         g0 == [NewGame EXCEPT !.isPlaying = TRUE,
                               !.currentWord = [disp |-> word.disp, kana |-> word.kana,
                                                tokens |-> tokens],
                               !.tokenIndex = tokenIndex]
     IN  probe' = [kind |-> "pattern", tokens |-> tokens, tokenIndex |-> tokenIndex,
                   pattern |-> pattern, first |-> p = 1,
                   after |-> [k \in 1..Len(pattern) |->
                                LET g == TypeKeys(g0, SubSeq(pattern, 1, k))
                                IN  [tokenIndex |-> g.tokenIndex,
                                     inputBuffer |-> g.inputBuffer,
                                     wrongKeys |-> g.wrongKeys,
                                     wordDone |-> g.playedWords # <<>>]]]
  /\ UNCHANGED <<game_sessions, scores, now, issued, req, game, gen>>

\* the buffers given to the match step at token tokenIndex (0-based) of
\* word w
BuffersAt(w, tokenIndex) ==
  ProbeBuffers(getValidPatterns(
                 TokenAt(tokenize(MatchWords[w].kana), tokenIndex + 1),
                 TokenAt(tokenize(MatchWords[w].kana), tokenIndex + 2)))

\* every word, token, buffer and key, and every pattern
MatchNext ==
  \E w \in 1..Len(MatchWords) :
    \E tokenIndex \in 0..(Len(tokenize(MatchWords[w].kana)) - 1) :
      \/ \E buffer \in BuffersAt(w, tokenIndex) :
           \E key \in ProbeKeys \cup ExtendingKeys(tokenize(MatchWords[w].kana),
                                                    tokenIndex, buffer) :
             MatchKey(w, tokenIndex, buffer, key)
      \/ \E buffer \in BuffersAt(w, tokenIndex),
            hiragana \in {TokenAt(tokenize(MatchWords[w].kana), tokenIndex + 1),
                          <<"NU">>} :
           FlickKey(w, tokenIndex, buffer, hiragana)
      \/ \E p \in 1..Len(getValidPatterns(
                         TokenAt(tokenize(MatchWords[w].kana), tokenIndex + 1),
                         TokenAt(tokenize(MatchWords[w].kana), tokenIndex + 2))) :
           TypePattern(w, tokenIndex, p)

\* word completions at every length and combo, and the words of the list
\* typed through
ScoreNext ==
  \/ \E wordLength \in 1..MaxWordLen, combo \in 1..MaxCombo, hasErrorInWord \in BOOLEAN :
       CompleteWord(wordLength, combo, hasErrorInWord)
  \/ \E w \in 1..Len(OFFICIAL_WORDS) : TypeWord(w)

\* generators made and drawn from in any order
GenNext ==
  \/ \E seed \in Seeds : createPRNG(seed)
  \/ \E i \in 1..MaxGens, elapsedTime \in ElapsedTimes : DrawWord(i, elapsedTime)

\* no handler is between its first statement and its return
Quiet == \A q \in Reqs : req[q].pc \in {"idle", "done"}

\* the shapes the concurrent handlers are sent
CoreShapes == {"one", "two", "scorePlus"}

\* handlers that overlap
ServerNext ==
  \/ \E seed \in Seeds, sweep \in BOOLEAN : GetGameToken(seed, sweep)
  \/ AdvanceClock
  \/ \E r \in Reqs, g \in 1..Len(issued), shape \in CoreShapes :
       Receive(r, g, shape, UsrA)
  \/ \E r \in Reqs : SelectSession(r)
  \/ \E r \in Reqs : DeleteSession(r)
  \/ \E r \in Reqs : SelectBest(r)
  \/ \E r \in Reqs : Upsert(r)

\* what the handlers are sent when they run one after another: every shape
\* for every issued game, and a body without user id or without game id
SeqInputs ==
  {[gameId |-> g, shape |-> shape, userId |-> UsrA] :
     g \in 1..Len(issued), shape \in Shapes}
  \cup {[gameId |-> g, shape |-> "one", userId |-> NoUser] : g \in 0..Len(issued)}

\* handlers one after another
SeqNext ==
  \/ \E seed \in Seeds, sweep \in BOOLEAN : GetGameToken(seed, sweep)
  \/ AdvanceClock
  \/ \E r \in Reqs, in \in SeqInputs :
       Len(issued) > 0 /\ Quiet /\ Receive(r, in.gameId, in.shape, in.userId)
  \/ \E r \in Reqs : SelectSession(r)
  \/ \E r \in Reqs : DeleteSession(r)
  \/ \E r \in Reqs : SelectBest(r)
  \/ \E r \in Reqs : Upsert(r)

\* one handler, sent every shape for every issued game and for no game, with
\* and without a user id
OneNext ==
  \/ \E seed \in Seeds, sweep \in BOOLEAN : GetGameToken(seed, sweep)
  \/ AdvanceClock
  \/ \E g \in 0..Len(issued), shape \in AllShapes, userId \in UserIds :
       Len(issued) > 0 /\ Receive(1, g, shape, userId)
  \/ SelectSession(1)
  \/ DeleteSession(1)
  \/ SelectBest(1)
  \/ Upsert(1)

\* the shapes sent while the storage fails: an honest one, a wrong score
\* and one whose replay throws
FaultShapes == {"one", "scorePlus", "nullWord"}

\* the handlers with a storage that can fail at every statement
FaultNext ==
  \/ \E seed \in Seeds, sweep \in BOOLEAN : GetGameToken(seed, sweep)
  \/ GetGameTokenNoDb
  \/ \E seed \in Seeds, inserted, swept \in BOOLEAN :
       GetGameTokenThrows(seed, inserted, swept)
  \/ AdvanceClock
  \/ \E r \in Reqs, g \in 1..Len(issued), shape \in FaultShapes :
       issued[g].success /\ Receive(r, g, shape, UsrA)
  \/ \E r \in Reqs, g \in 1..Len(issued) :
       issued[g].success /\ ReceiveNoDb(r, g, "one", UsrA)
  \/ \E r \in Reqs : ReceiveUnparsable(r)
  \/ \E r \in Reqs : SelectSession(r)
  \/ \E r \in Reqs : DeleteSession(r)
  \/ \E r \in Reqs : SelectBest(r)
  \/ \E r \in Reqs : Upsert(r)
  \/ \E r \in Reqs, effect \in BOOLEAN : StatementThrows(r, effect)

Init == ServerInit /\ ClientInit /\ GenInit /\ ProbeInit
Next == ServerNext
Spec == Init /\ [][Next]_vars
SpecSeq == Init /\ [][SeqNext]_vars
GameSpec == Init /\ [][GameNext]_vars
GenSpec == Init /\ [][GenNext]_vars
SpecOne == Init /\ [][OneNext]_vars
FaultSpec == Init /\ [][FaultNext]_vars
StartSpec == Init /\ [][StartNext]_vars
ScoreSpec == Init /\ [][ScoreNext]_vars
MatchSpec == Init /\ [][MatchNext]_vars
KanaSpec == Init /\ [][KanaNext]_vars
PoolSpec == Init /\ [][PoolNext]_vars
TimeSpec == Init /\ [][TimeNext]_vars
RetrySpec == Init /\ [][RetryNext]_vars
\* the player's game with a timer that keeps firing: setInterval calls tick
\* every second until clearInterval
LiveSpec == Init /\ [][GameNext]_vars /\ WF_vars(Tick)

(***************************************************************************)
(* What a submission violates, read off the submission itself.             *)
(***************************************************************************)
\* the generator seeded with seed after n draws
\* (n calls add 0x6d2b79f5 n times, which is n * 0x6d2b79f5 in 32 bits)
PrngAfter(prng, n) == Add32(prng, Imul(Word32(n), Golden))

\* the word getNextWordSeeded returns on draw i (0-based) of a generator
\* seeded with seed, for the elapsed time elapsedTime
ExpectedWord(seed, i, elapsedTime) ==
  getNextWordSeeded(OFFICIAL_WORDS, elapsedTime, PrngAfter(Word32(seed), i)).word

\* ExpectedWord for every seed, draw and elapsed time of the generators,
\* computed once
DrawnWords ==
  [seed \in Seeds, i \in 0..(MaxDraws - 1), elapsedTime \in ElapsedTimes |->
     ExpectedWord(seed, i, elapsedTime)]

\* the variable of a generator of every seed after every number of draws,
\* computed once
CellsAfter == [seed \in Seeds, n \in 0..MaxDraws |-> PrngAfter(Word32(seed), n)]

\* the indices (0-based) of the played words whose kana is not the expected one
Mismatches(seed, body) ==
  {i \in 0..(Len(body.playedWords) - 1) :
     /\ ~body.playedWords[i + 1].isNull
     /\ body.playedWords[i + 1].kana
          # ExpectedWord(seed, i, body.playedWords[i + 1].startTime).kana}

\* the body cut after its first n played words
Prefix(body, n) == [body EXCEPT !.playedWords = SubSeq(@, 1, n)]

\* startTime is later than the time the words replayed in before have earned
LaterThanEarned(startTime, before) ==
  /\ before.verdict = "replayed"
  /\ startTime > DEFAULT_TIME + before.acc.totalTimeBonuses + BUDGET_GRACE

\* the indices of the played words that start later than the time the words
\* before them have earned
BudgetViolations(seed, body) ==
  {i \in 0..(Len(body.playedWords) - 1) :
     /\ ~body.playedWords[i + 1].isNull
     /\ LaterThanEarned(body.playedWords[i + 1].startTime,
                        Replay(seed, Prefix(body, i)))}

HasNull(body) == \E i \in 1..Len(body.playedWords) : body.playedWords[i].isNull

Least(S) == CHOOSE i \in S : \A j \in S : i <= j

\* every key of the log comes the same time after the one before it
EvenlySpaced(keyLog) ==
  \A i, j \in 2..Len(keyLog) :
    keyLog[i].time - keyLog[i - 1].time = keyLog[j].time - keyLog[j - 1].time

\* what the body violates; rep is its replay
FactsFor(seed, body, rep) ==
  LET replayed == StructureOK(body) /\ rep.verdict = "replayed"
      sample == body.keyLogIsArray /\ Len(body.keyLog) > MIN_SAMPLE
  IN  [structure |-> ~StructureOK(body),
       duration |-> TotalGameTimeMs(body) > DURATION_LIMIT * 1000,
       hasNull |-> HasNull(body),
       mismatches |-> Mismatches(seed, body),
       overBudget |-> BudgetViolations(seed, body),
       replayed |-> replayed,
       replayedScore |-> IF replayed THEN rep.acc.serverScore ELSE 0,
       claimedScore |-> body.score,
       correctKeys |-> IF replayed THEN rep.acc.correctKeys ELSE 0,
       keys |-> IF body.keyLogIsArray THEN Len(body.keyLog) ELSE 0,
       uniform |-> body.keyLogIsArray /\ EvenlySpaced(body.keyLog),
       speed |-> replayed /\ TooFast(rep.acc.correctKeys, TotalGameTimeMs(body)),
       consistent |-> sample /\ TooConsistent(Intervals(body.keyLog)),
       burst |-> sample /\ TooManyBursts(body.keyLog)]

\* one entry per seed and shape
Facts ==
  [seed \in Seeds, shape \in AllShapes |->
     FactsFor(seed, Bodies[seed, shape], Replay(seed, Bodies[seed, shape]))]

FactsOf(q) == Facts[q.sub.seed, q.sub.shape]

\* the handler has returned
Returned(q) == q.pc = "done"
\* the handler found its session
FoundSession(q) == q.session # NoRow
\* the handler has run its checks (everything after the DELETE)
Checked(q) == q.verdict.reason # "pending"
\* the handler returned success
Accepted(q) == Returned(q) /\ q.result.success
\* the handler returned a failure
Rejected(q) == Returned(q) /\ ~q.result.success
\* the handler takes the step that returns
Returns(r) == req[r].pc # "done" /\ req'[r].pc = "done"

(***************************************************************************)
(* Session consumption                                                     *)
(***************************************************************************)
\* C2 (as stated): of the handlers that carry one gameId, at most one gets
\* past the session check and runs the verification.  The SELECT and the
\* DELETE are two statements, and a second handler can SELECT between them.
SessionConsumedAtMostOnce ==
  \A r1, r2 \in Reqs :
    (/\ r1 # r2
     /\ req[r1].sub.gameId = req[r2].sub.gameId
     /\ Checked(req[r1]))
    => ~Checked(req[r2])

PassedSession(q) ==
  Returned(q) /\ FoundSession(q) /\ q.result.reason # "expired"

\* the handler got past the session, structure and duration checks
PassedDuration(q) ==
  PassedSession(q) /\ ~FactsOf(q).structure /\ ~FactsOf(q).duration

\* C4 (as stated): every submission whose claimed score differs from the
\* replayed score is rejected with the score-mismatch reason, and every
\* accepted response carries a verifiedScore equal to both.
ScoreMismatchAlwaysNamed ==
  \A r \in Reqs :
    /\ (/\ PassedSession(req[r])
        /\ FactsOf(req[r]).replayed
        /\ FactsOf(req[r]).claimedScore # FactsOf(req[r]).replayedScore)
       => /\ Rejected(req[r])
          /\ req[r].result.reason = "score mismatch"
    /\ Accepted(req[r])
       => /\ req[r].result.verifiedScore = FactsOf(req[r]).replayedScore
          /\ req[r].result.verifiedScore = FactsOf(req[r]).claimedScore

\* C4 (amended): a submission whose claimed score differs from the replayed
\* score is never accepted; when it passes the session, structure, duration
\* and per-word checks it is rejected with the score-mismatch reason; every
\* accepted response carries a verifiedScore equal to both scores.
ExactScoreEquality ==
  \A r \in Reqs :
    /\ (/\ Returned(req[r])
        /\ FactsOf(req[r]).replayed
        /\ FactsOf(req[r]).claimedScore # FactsOf(req[r]).replayedScore)
       => Rejected(req[r])
    /\ (/\ PassedDuration(req[r])
        /\ FactsOf(req[r]).replayed
        /\ FactsOf(req[r]).claimedScore # FactsOf(req[r]).replayedScore)
       => req[r].result.reason = "score mismatch"
    /\ Accepted(req[r])
       => /\ FactsOf(req[r]).replayed
          /\ req[r].result.verifiedScore = FactsOf(req[r]).replayedScore
          /\ req[r].result.verifiedScore = FactsOf(req[r]).claimedScore

\* a submission that claims one point more than it earned, rejected
OffByOneRejected ==
  \E r \in Reqs :
    /\ Rejected(req[r])
    /\ req[r].result.reason = "score mismatch"
    /\ FactsOf(req[r]).replayed
    /\ FactsOf(req[r]).claimedScore = FactsOf(req[r]).replayedScore + 1

RowsOf(table, userId) == {s \in table : s.user_id = userId}

Greatest(S) == CHOOSE i \in S : \A j \in S : j <= i

\* C6: with handlers run one after another, every step keeps at most one
\* row per user and never lowers a stored score; a step that changes the
\* table is the return of an accepted handler whose verified score is
\* strictly greater than the score stored before (or the user had no row),
\* and a handler returns isNewRecord = TRUE exactly when its step changed
\* the table.
BestScoreIdempotent ==
  [][/\ \A u \in UserIds : Cardinality(RowsOf(scores', u)) <= 1
     /\ \A old \in scores :
          \E new \in RowsOf(scores', old.user_id) : new.score >= old.score
     /\ scores' # scores
        => \E r \in Reqs :
             /\ Returns(r)
             /\ Accepted(req'[r])
             /\ \A old \in RowsOf(scores, req[r].sub.userId) :
                  req'[r].result.verifiedScore > old.score
             /\ \E new \in RowsOf(scores', req[r].sub.userId) :
                  new.score = req'[r].result.verifiedScore
     /\ \A r \in Reqs :
          (Returns(r) /\ Accepted(req'[r]))
          => (req'[r].result.isNewRecord <=> scores' # scores)]_vars

\* the same verified score accepted twice for one user: the first call wrote
\* the row, the second did not
SameScoreTwice ==
  \E r1, r2 \in Reqs :
    /\ r1 # r2
    /\ Accepted(req[r1])
    /\ Accepted(req[r2])
    /\ req[r1].sub.userId = req[r2].sub.userId
    /\ req[r1].result.verifiedScore = req[r2].result.verifiedScore
    /\ req[r1].result.isNewRecord
    /\ ~req[r2].result.isNewRecord
    /\ \E row \in scores : row.score = req[r1].result.verifiedScore

\* C7 (as stated): once the accepted handlers of a user have all returned,
\* the stored score of the user is the greatest of their verified scores.
\* The SELECT of the current best and the INSERT are two statements, and the
\* INSERT overwrites whatever is stored when it runs.
BestIsMaximum ==
  Quiet
  => \A u \in {UsrA} :
       LET accepted == {r \in Reqs : Accepted(req[r]) /\ req[r].sub.userId = u}
       IN  accepted # {}
           => \E row \in scores :
                /\ row.user_id = u
                /\ row.score
                     = Greatest({req[r].result.verifiedScore : r \in accepted})

CodeOrder(f, expired) ==
  LET none == [reason |-> "ok", index |-> 0]
      m == f.mismatches
      b == f.overBudget
  IN  IF expired THEN [none EXCEPT !.reason = "expired"]
      ELSE IF f.structure THEN [none EXCEPT !.reason = "structure"]
      ELSE IF f.duration THEN [none EXCEPT !.reason = "duration"]
      ELSE IF m # {} /\ (b = {} \/ Least(m) <= Least(b))
      THEN [reason |-> "word mismatch", index |-> Least(m)]
      ELSE IF b # {} THEN [reason |-> "time budget", index |-> Least(b)]
      ELSE IF f.claimedScore # f.replayedScore THEN [none EXCEPT !.reason = "score mismatch"]
      ELSE IF f.speed THEN [none EXCEPT !.reason = "speed"]
      ELSE IF f.consistent THEN [none EXCEPT !.reason = "too consistent"]
      ELSE IF f.burst THEN [none EXCEPT !.reason = "burst"]
      ELSE none

\* the reason they give in the order: expiry, structure, duration, word
\* check, time budget, score, speed, variance, bursts
ListedOrder(f, expired) ==
  IF expired THEN "expired"
  ELSE IF f.structure THEN "structure"
  ELSE IF f.duration THEN "duration"
  ELSE IF f.mismatches # {} THEN "word mismatch"
  ELSE IF f.overBudget # {} THEN "time budget"
  ELSE IF f.claimedScore # f.replayedScore THEN "score mismatch"
  ELSE IF f.speed THEN "speed"
  ELSE IF f.consistent THEN "too consistent"
  ELSE IF f.burst THEN "burst"
  ELSE "ok"

\* the lookup of a handler that carries a gameId fails
NoSession(r) == ~\E s \in game_sessions : s.id = req[r].sub.gameId

\* the checks of the handler throw (an element of playedWords is null)
Throws(r) ==
  /\ ~Expired(req[r].session, now)
  /\ ~FactsOf(req[r]).structure
  /\ ~FactsOf(req[r]).duration
  /\ FactsOf(req[r]).hasNull

HonestSubmissionVerified ==
  \A r \in Reqs :
    (Returned(req[r]) /\ req[r].sub.shape = "client")
    => /\ req[r].result.reason \notin {"word mismatch", "time budget", "score mismatch"}
       /\ req[r].result.success
          => req[r].result.verifiedScore = req[r].sub.body.score

(***************************************************************************)
(* Replay determinism                                                      *)
(***************************************************************************)
\* C10: the words a generator has given are a function of its seed and of
\* the elapsed times it was drawn at, whatever other generators were made
\* or advanced in between; so two generators with the same seed and the
\* same elapsed times have given the same words, and the variable of a
\* generator is its seed advanced once per draw of that generator.
ReplayDeterminism ==
  /\ \A i \in 1..Len(gen.fns) :
       LET f == gen.fns[i]
       IN  /\ \A k \in 1..Len(f.words) :
                f.words[k] = DrawnWords[f.seed, k - 1, f.times[k]]
           /\ gen.cells[f.cell] = CellsAfter[f.seed, Len(f.words)]
  /\ \A i, j \in 1..Len(gen.fns) :
       (gen.fns[i].seed = gen.fns[j].seed /\ gen.fns[i].times = gen.fns[j].times)
       => gen.fns[i].words = gen.fns[j].words

\* two generators of one seed drawn twice at the same elapsed times, and a
\* generator of another seed advanced as well
TwoReplaysAndAnother ==
  \E i, j, k \in 1..Len(gen.fns) :
    /\ i # j
    /\ gen.fns[i].seed = gen.fns[j].seed
    /\ gen.fns[k].seed # gen.fns[i].seed
    /\ Len(gen.fns[i].words) = MaxDraws
    /\ gen.fns[i].times = gen.fns[j].times
    /\ gen.fns[i].words = gen.fns[j].words
    /\ Len(gen.fns[k].words) > 0
(***************************************************************************)
(* The single checks of the verifier                                       *)
(***************************************************************************)
\* C11: a submission that passes the session, structure and duration checks
\* and whose words match up to a word started later than DEFAULT_TIME plus
\* the time bonuses the replay of the words before it has earned plus
\* BUDGET_GRACE is rejected with the time-budget reason naming that word;
\* the time-budget reason is given for such a word only; no accepted
\* submission contains such a word.
TimeBudgetEnforced ==
  \A r \in Reqs :
    LET over == FactsOf(req[r]).overBudget
        res == req[r].result
    IN  /\ (/\ PassedDuration(req[r])
            /\ over # {}
            /\ over \cap FactsOf(req[r]).mismatches = {})
           => /\ Rejected(req[r])
              /\ res.reason = "time budget"
              /\ res.index \in over
        /\ (Returned(req[r]) /\ res.reason = "time budget")
           => /\ PassedDuration(req[r])
              /\ res.index \in over
        /\ Accepted(req[r]) => over = {}

\* a submission whose first word was typed with an error and whose second
\* word starts in the second the first word would have earned, rejected
UnearnedSecondRejected ==
  \E r \in Reqs :
    /\ Rejected(req[r])
    /\ req[r].result.reason = "time budget"
    /\ req[r].result.index = 1
    /\ FactsOf(req[r]).overBudget = {1}
    /\ Payload(req[r].sub).playedWords[2].startTime
         = DEFAULT_TIME + BUDGET_GRACE + 1
    /\ Payload(req[r].sub).keyLog[1].key = <<"0">>

\* the total game time in ms as the ceiling is stated for: the reported
\* duration, or the time of the last entry of keyLog when none is reported
\* (duration 0 stands for none)
StatedGameTimeMs(body) ==
  IF body.duration # 0 THEN body.duration * 1000
  ELSE IF Len(body.keyLog) = 0 THEN 0
  ELSE body.keyLog[Len(body.keyLog)].time

OverSpeed(correctKeys, totalMs) == correctKeys * 60000 > KPM_LIMIT * totalMs

\* the handler got past the score check
PassedScore(q) ==
  /\ PassedDuration(q)
  /\ FactsOf(q).replayed
  /\ FactsOf(q).claimedScore = FactsOf(q).replayedScore

\* C13 (as stated): a submission that passes the score check and whose
\* correctKeys per minute of total game time exceed KPM_LIMIT is rejected
\* with the speed reason, and no accepted submission is that fast, however
\* short the game.  The handler takes kpm to be 0 when the game lasted 3
\* seconds or less, so the fastest submissions pass.
SpeedCeiling ==
  \A r \in Reqs :
    LET fast == OverSpeed(FactsOf(req[r]).correctKeys,
                          StatedGameTimeMs(Payload(req[r].sub)))
    IN  /\ (PassedScore(req[r]) /\ fast)
           => Rejected(req[r]) /\ req[r].result.reason = "speed"
        /\ Accepted(req[r]) => ~fast

\* the handler got past the speed check
PassedSpeed(q) == PassedScore(q) /\ ~FactsOf(q).speed

\* C14: a submission that passes the score and speed checks and has more
\* than MIN_SAMPLE keys, each the same time after the one before, is
\* rejected as too consistent; with MIN_SAMPLE keys or fewer such a
\* submission is accepted, and nothing is rejected by the variance or the
\* burst check
RegularityCheck ==
  \A r \in Reqs :
    /\ (PassedSpeed(req[r]) /\ FactsOf(req[r]).uniform
          /\ FactsOf(req[r]).keys > MIN_SAMPLE)
         => Rejected(req[r]) /\ req[r].result.reason = "too consistent"
    /\ (PassedSpeed(req[r]) /\ FactsOf(req[r]).keys <= MIN_SAMPLE)
         => Accepted(req[r])
    /\ (Returned(req[r]) /\ FactsOf(req[r]).keys <= MIN_SAMPLE)
         => req[r].result.reason \notin {"too consistent", "burst"}

\* a log of MIN_SAMPLE + 1 evenly spaced keys has been rejected
ThirtyOneEvenKeysRejected ==
  \E r \in Reqs :
    /\ Rejected(req[r]) /\ req[r].result.reason = "too consistent"
    /\ FactsOf(req[r]).uniform /\ FactsOf(req[r]).keys = MIN_SAMPLE + 1

\* a log of MIN_SAMPLE evenly spaced keys has been accepted
ThirtyEvenKeysAccepted ==
  \E r \in Reqs :
    /\ Accepted(req[r])
    /\ FactsOf(req[r]).uniform /\ FactsOf(req[r]).keys = MIN_SAMPLE

\* the handler r returns a failure with this reason and no verified score
FailsWith(r, reason) ==
  /\ req'[r].pc = "done"
  /\ ~req'[r].result.success
  /\ req'[r].result.reason = reason
  /\ req'[r].result.verifiedScore = 0
  /\ req'[r].verdict.serverScore = 0

\* the steps of the session check: the SELECT that finds no row, the expiry
\* check of a row whose expires_at is earlier than the current time, and
\* the INSERT of getGameToken
SessionSteps ==
  /\ \A r \in Reqs :
       /\ (/\ req[r].pc = "select" /\ req'[r].pc # "select"
           /\ \A s \in game_sessions : s.id # req[r].sub.gameId)
          => FailsWith(r, "invalid session")
       /\ (/\ req[r].pc = "delete" /\ req'[r].pc # "delete"
           /\ req[r].session.expires_at < now)
          => FailsWith(r, "expired")
       /\ (/\ req[r].pc = "delete" /\ req'[r].pc # "delete"
           /\ req'[r].result.reason = "expired")
          => req[r].session.expires_at < now
  /\ Len(issued') > Len(issued)
       => \E s \in game_sessions' :
            /\ s.id = issued'[Len(issued')].gameId
            /\ s.seed = issued'[Len(issued')].seed
            /\ s.expires_at = now + 10 * 60 * 1000

\* C15: a submission whose gameId has no session row is rejected as an
\* invalid session, one whose session's expires_at is earlier than the
\* current time is rejected as expired (and only such a one), neither is
\* replayed or accepted, and the session of a token expires 10 minutes after
\* the token was issued
SessionErrors == [][SessionSteps]_vars

\* a session has been rejected as expired, one CLOCK_STEP after its
\* expires_at
ExpiredSessionRejected ==
  \E r \in Reqs :
    /\ Rejected(req[r]) /\ req[r].result.reason = "expired"
    /\ req[r].session.expires_at + CLOCK_STEP = now

\* a submission for a consumed session has been rejected as invalid
MissingSessionRejected ==
  \E r \in Reqs :
    /\ Rejected(req[r]) /\ req[r].result.reason = "invalid session"
    /\ req[r].sub.gameId # 0

\* the failures of the verifier's own checks
CheckReasons ==
  {"missing id", "invalid session", "expired", "structure", "duration",
   "word mismatch", "time budget", "score mismatch", "speed",
   "too consistent", "burst"}

\* the steps that return a result: a success is returned only after the
\* session was deleted, every check passed and, for a new record, the row
\* was written; a failure carries no verified score; a token is handed out
\* only with its session row
ResultSteps ==
  /\ \A r \in Reqs :
       Returns(r) =>
         IF req'[r].result.success
         THEN /\ req[r].pc \in {"delete", "selectBest", "upsert"}
              /\ req'[r].verdict.reason = "ok"
              /\ \A s \in game_sessions' : s.id # req[r].sub.gameId
              /\ req'[r].result.isNewRecord
                   => \E s \in scores' :
                        /\ s.user_id = req[r].sub.userId
                        /\ s.score = req'[r].result.verifiedScore
         ELSE /\ req'[r].result.reason # "ok"
              /\ req'[r].result.verifiedScore = 0
              /\ req'[r].result.kpm = 0
              /\ ~req'[r].result.isNewRecord
  /\ Len(issued') > Len(issued) =>
       LET token == issued'[Len(issued')]
       IN  IF token.success
           THEN \E s \in game_sessions' : s.id = token.gameId /\ s.seed = token.seed
           ELSE token.gameId = 0 /\ token.seed = 0

\* C16: when platform.env.DB is missing or a statement or a replay step
\* throws, getGameToken and submitScore return a failure: no success comes
\* without the session deleted, the checks passed and the record written,
\* no failure carries a verified score or a gameId; and the checks of the
\* verifier have messages that differ from one another
FailuresNotCoerced ==
  /\ [][ResultSteps]_vars
  /\ \A a, b \in CheckReasons : a # b => Message(a) # Message(b)

\* a DELETE has thrown without deleting and its handler returned the
\* internal failure, and a token request has failed
ThrownDeleteReturnedFailure ==
  /\ \E r \in Reqs :
       /\ Rejected(req[r]) /\ req[r].result.reason = "internal"
       /\ req[r].session \in game_sessions
  /\ \E g \in 1..Len(issued) : ~issued[g].success

\* the phase of the engine
Phase(g) ==
  IF g.isPreparing THEN "Preparing"
  ELSE IF g.isPlaying THEN "Playing"
  ELSE IF g.gameStats.set THEN "Finished"
  ELSE "Idle"

\* the token request of start has come back with a failure
TokenRequestFailed ==
  /\ game.isPreparing
  /\ Len(issued) > game.tokens
  /\ ~issued[Len(issued)].success

\* the phase moves along Idle, Preparing, Playing, Finished (and from
\* Finished to Preparing by a new start); Playing is entered after the token
\* response
PhaseMoves ==
  /\ Phase(game) # Phase(game') =>
       <<Phase(game), Phase(game')>> \in
         {<<"Idle", "Preparing">>, <<"Preparing", "Playing">>,
          <<"Playing", "Finished">>, <<"Finished", "Preparing">>,
          <<"Preparing", "Idle">>}
  /\ (Phase(game) # "Playing" /\ Phase(game') = "Playing")
       => Len(issued) > game.tokens

\* a failed token request ends in Idle with the session-error message
FailureToIdle ==
  (TokenRequestFailed /\ Phase(game') # "Preparing")
    => Phase(game') = "Idle" /\ game'.message = "SESSION ERROR"

\* C17 (as stated): the phase of the engine moves only along Idle,
\* Preparing, Playing, Finished; Playing is entered only from Preparing
\* after the token request returned, Finished only from Playing, and a
\* failed token request returns the engine to Idle with the session-error
\* message.  start reads a failure result that arrives with an ok status as
\* a token without gameId and seed, and the game begins.
PhaseOrder == [][PhaseMoves /\ FailureToIdle]_vars

\* C18 (as stated): whenever the engine is playing, currentGameId is set to
\* the gameId of a token response and the scheduler is seeded.  After a
\* failure result read as a token the engine plays with currentGameId null
\* and the words of Math.random.
PlayingHasToken ==
  game.isPlaying =>
    /\ game.currentGameId # 0
    /\ game.gamePRNG # NoPRNG
    /\ \E g \in 1..Len(issued) :
         issued[g].success /\ issued[g].gameId = game.currentGameId

\* floor(len * 5 * (1 + combo * 0.05)) in exact arithmetic, plus the bonus
\* of a word without error
StatedGain(wordLength, combo, hasErrorInWord) ==
  (wordLength * BASE_SCORE_PER_CHAR * (COMBO_DIVISOR + combo)) \div COMBO_DIVISOR
    + (IF hasErrorInWord THEN 0 ELSE PERFECT_SCORE_BONUS)

\* C19 (as stated): on every word completion the client and the server add
\* floor(len * 5 * (1 + combo * 0.05)), plus 20 if the word had no error,
\* and neko typed n, e, k, o from combo 0 gains 32.  Both compute the
\* product in double precision, where 1 + combo * 0.05 can fall below its
\* exact value and the floor comes out one less.
ScoreGainAsStated ==
  probe.kind \in {"complete", "typed"} =>
    /\ probe.client = StatedGain(probe.wordLength, probe.combo, probe.hasErrorInWord)
    /\ probe.server = StatedGain(probe.wordLength, probe.combo, probe.hasErrorInWord)
    /\ (probe.kind = "typed" /\ probe.word = "neko") => probe.client = 32

\* what the claim says of a side's outcome for the key typed after buffer:
\* accepted iff some pattern starts with buffer + key; the token is
\* complete iff buffer + key is a pattern and the ambiguous-n case does not
\* apply, and then the index moves on (or the word is done) and the buffer
\* is empty; otherwise the buffer is buffer + key and the index stays
MatchOutcome(side, tokens, tokenIndex, patterns, typed) ==
  LET starts == \E i \in 1..Len(patterns) :
                  /\ Len(typed) <= Len(patterns[i])
                  /\ \A k \in 1..Len(typed) : patterns[i][k] = typed[k]
      whole == \E i \in 1..Len(patterns) : patterns[i] = typed
      ambiguous == isN_Ambiguity(TokenAt(tokens, tokenIndex + 1), typed,
                                 TokenAt(tokens, tokenIndex + 2))
  IN  /\ side.accepted <=> starts
      /\ side.rejected <=> ~starts
      /\ (starts /\ whole /\ ~ambiguous) =>
           /\ side.inputBuffer = <<>>
           /\ IF tokenIndex + 1 < Len(tokens)
              THEN side.tokenIndex = tokenIndex + 1 /\ ~side.wordDone
              ELSE side.wordDone
      /\ (starts /\ ~(whole /\ ~ambiguous)) =>
           side.inputBuffer = typed /\ side.tokenIndex = tokenIndex /\ ~side.wordDone
      /\ ~starts => side.tokenIndex = tokenIndex /\ ~side.wordDone

\* C20: for every buffer, key and pattern list, in processInput and in the
\* romaji branch of the replay, the key is accepted iff some pattern starts
\* with buffer + key and otherwise rejected; an accepted key completes the
\* token (index + 1, buffer empty) iff buffer + key is a pattern and the
\* ambiguous-n case does not apply, and otherwise the buffer becomes
\* buffer + key and the index stays
MatchStep ==
  probe.kind = "match" =>
    LET patterns == getValidPatterns(TokenAt(probe.tokens, probe.tokenIndex + 1),
                                     TokenAt(probe.tokens, probe.tokenIndex + 2))
    IN  /\ MatchOutcome(probe.client, probe.tokens, probe.tokenIndex, patterns,
                        probe.buffer \o probe.key)
        /\ MatchOutcome(probe.server, probe.tokens, probe.tokenIndex, patterns,
                        probe.buffer \o probe.key)

\* n has been typed for the moraic n before ya: it is a pattern of the
\* token, the ambiguous-n case applies, and both sides keep it in the buffer
AmbiguousNKept ==
  /\ probe.kind = "match"
  /\ TokenAt(probe.tokens, probe.tokenIndex + 1) = <<"NN">>
  /\ probe.buffer \o probe.key = <<"n">>
  /\ probe.client.accepted /\ probe.server.accepted
  /\ probe.client.inputBuffer = <<"n">> /\ probe.server.inputBuffer = <<"n">>
  /\ probe.client.tokenIndex = probe.tokenIndex
  /\ probe.server.tokenIndex = probe.tokenIndex

\* the side has completed the token at tokenIndex: the buffer is empty and
\* the index has moved on, or the word is done
TokenCompleted(side, tokens, tokenIndex) ==
  /\ side.inputBuffer = <<>>
  /\ IF tokenIndex + 1 < Len(tokens)
     THEN side.tokenIndex = tokenIndex + 1 /\ ~side.wordDone
     ELSE side.wordDone

\* the side has kept typed in the buffer of the token at tokenIndex
TokenPending(side, tokenIndex, typed) ==
  side.inputBuffer = typed /\ side.tokenIndex = tokenIndex /\ ~side.wordDone

\* a next token exists and its first table pattern starts with one of
\* a, i, u, e, o, y, n
NextIsVowelYN(tokens, tokenIndex) ==
  /\ tokenIndex + 2 <= Len(tokens)
  /\ KanaTable[tokens[tokenIndex + 2]][1][1] \in {"a", "i", "u", "e", "o", "y", "n"}

\* what the rule says of a side when the current token is the moraic n
SingleN(side, tokens, tokenIndex, buffer, key) ==
  /\ buffer \o key = <<"n">> =>
       /\ side.accepted
       /\ IF NextIsVowelYN(tokens, tokenIndex)
          THEN TokenPending(side, tokenIndex, <<"n">>)
          ELSE TokenCompleted(side, tokens, tokenIndex)
  /\ (buffer = <<"n">> /\ NextIsVowelYN(tokens, tokenIndex)) =>
       (TokenCompleted(side, tokens, tokenIndex) <=> key = <<"n">>)

\* C21: when the current token is the moraic n and the buffer after the key
\* is exactly n, the token does not complete on that key if a next token
\* exists whose first table pattern starts with a, i, u, e, o, y or n, and
\* then only a second n (buffer nn) completes it; when the moraic n is the
\* last token or the next token's first pattern starts with another letter,
\* the single n completes it (client and server alike)
SingleNRule ==
  (probe.kind = "match" /\ TokenAt(probe.tokens, probe.tokenIndex + 1) = <<"NN">>) =>
    /\ SingleN(probe.client, probe.tokens, probe.tokenIndex, probe.buffer, probe.key)
    /\ SingleN(probe.server, probe.tokens, probe.tokenIndex, probe.buffer, probe.key)

\* the second n for the moraic n before e (kinen): both sides complete the
\* token
SecondNCompletes ==
  /\ probe.kind = "match"
  /\ probe.tokens = <<<<"KI">>, <<"NN">>, <<"E">>, <<"NN">>>>
  /\ probe.tokenIndex = 1
  /\ probe.buffer = <<"n">> /\ probe.key = <<"n">>
  /\ TokenCompleted(probe.client, probe.tokens, 1)
  /\ TokenCompleted(probe.server, probe.tokens, 1)

\* a single n for the moraic n that ends the word (hon): the word is done
SingleNEndsWord ==
  /\ probe.kind = "match"
  /\ probe.tokens = <<<<"HO">>, <<"NN">>>>
  /\ probe.tokenIndex = 1
  /\ probe.buffer = <<>> /\ probe.key = <<"n">>
  /\ probe.client.wordDone /\ probe.server.wordDone

\* the entry of the table for a token, empty for a token the table lacks
EntryOf(token) == IF token \in DOMAIN KanaTable THEN KanaTable[token] ELSE <<>>

\* the place of the first pattern of entry that starts with letter
FirstPlace(entry, letter) ==
  CHOOSE j \in 1..Len(entry) :
    /\ entry[j][1] = letter
    /\ \A k \in 1..(j - 1) : entry[k][1] # letter

\* C22: getValidPatterns for the small tsu with a next token of the table
\* returns the distinct first letters of the next token's table patterns in
\* first-occurrence order, followed by the small tsu's own patterns xtu,
\* ltu, tsu (before ta the result starts with t); without a next token, or
\* with one the table lacks, only the own patterns are returned
GeminatePatterns ==
  (probe.kind = "patterns" /\ probe.token = <<"xTU">>) =>
    LET own == <<<<"x", "t", "u">>, <<"l", "t", "u">>, <<"t", "s", "u">>>>
        entry == EntryOf(probe.nextToken)
        n == Len(probe.patterns) - Len(own)
    IN  IF probe.nextToken # NoToken /\ probe.nextToken \in DOMAIN KanaTable
        THEN /\ n >= 1
             /\ SubSeq(probe.patterns, n + 1, n + Len(own)) = own
             /\ \A i \in 1..n : Len(probe.patterns[i]) = 1
             /\ {probe.patterns[i][1] : i \in 1..n} = {entry[j][1] : j \in 1..Len(entry)}
             /\ \A i, j \in 1..n :
                  i < j => FirstPlace(entry, probe.patterns[i][1])
                             < FirstPlace(entry, probe.patterns[j][1])
             /\ probe.nextToken = <<"TA">> => probe.patterns[1] = <<"t">>
        ELSE probe.patterns = own

\* the small tsu before shi, whose patterns shi, si, ci start with s, s, c:
\* s and c go in front, each once
GeminateBeforeShi ==
  /\ probe.kind = "patterns"
  /\ probe.token = <<"xTU">> /\ probe.nextToken = <<"SI">>
  /\ probe.patterns = <<<<"s">>, <<"c">>, <<"x", "t", "u">>, <<"l", "t", "u">>,
                         <<"t", "s", "u">>>>

\* C23: getValidPatterns for a token of one character returns the table
\* entry of the token in table order; for a token of two characters whose
\* first is not the small tsu it returns the token's own entries in order,
\* followed by every p1 + p2 with p1 of the first character's entry and p2
\* of the second's, p1 in the outer and p2 in the inner order
DigraphPatterns ==
  probe.kind = "patterns" =>
    LET token == probe.token
        direct == EntryOf(token)
    IN  /\ (Len(token) = 1 /\ (token # <<"xTU">> \/ probe.nextToken = NoToken)) =>
             probe.patterns = direct
        /\ (Len(token) = 2 /\ token[1] # "xTU") =>
             LET p1List == EntryOf(<<token[1]>>)
                 p2List == EntryOf(<<token[2]>>)
             IN  /\ Len(probe.patterns) = Len(direct) + Len(p1List) * Len(p2List)
                 /\ \A i \in 1..Len(direct) : probe.patterns[i] = direct[i]
                 /\ \A a \in 1..Len(p1List), b \in 1..Len(p2List) :
                      probe.patterns[Len(direct) + (a - 1) * Len(p2List) + b]
                        = p1List[a] \o p2List[b]

\* sha: the two own entries, then shi, si, ci each before xya and lya
DigraphSha ==
  /\ probe.kind = "patterns"
  /\ probe.token = <<"SI", "xYA">>
  /\ Len(probe.patterns) = Len(KanaTable[<<"SI", "xYA">>]) + 6
  /\ probe.patterns[Len(KanaTable[<<"SI", "xYA">>]) + 2]
       = <<"s", "h", "i", "l", "y", "a">>
  /\ probe.patterns[Len(KanaTable[<<"SI", "xYA">>]) + 3]
       = <<"s", "i", "x", "y", "a">>

\* tokens is input cut from left to right, two characters at a time where
\* the second is one of small, and one character otherwise
CutBefore(input, tokens, small) ==
  LET start(k) == 1 + SumSeq([j \in 1..(k - 1) |-> Len(tokens[j])])
  IN  /\ SumSeq([k \in 1..Len(tokens) |-> Len(tokens[k])]) = Len(input)
      /\ \A k \in 1..Len(tokens) :
           IF start(k) + 1 <= Len(input) /\ input[start(k) + 1] \in small
           THEN tokens[k] = <<input[start(k)], input[start(k) + 1]>>
           ELSE tokens[k] = <<input[start(k)]>>

\* C24 (as stated): tokenize fuses the current character with the next one
\* whenever the next one is a small vowel, a glide, the small wa or the
\* small tsu, and emits it alone otherwise.  The list of tokenize has no
\* small tsu: a character before the small tsu is emitted alone.
FusesWithSmallTsu ==
  probe.kind = "tokens" =>
    CutBefore(probe.kanaWord, probe.tokens,
              {"xA", "xI", "xU", "xE", "xO", "xYA", "xYU", "xYO", "xWA", "xTU"})

\* C24 (amended): tokenize fuses the current character with the next one
\* whenever the next one is a small vowel, a glide or the small wa, and
\* emits it alone otherwise; the small tsu is not fused with the character
\* before it
FusesTheNine ==
  probe.kind = "tokens" =>
    CutBefore(probe.kanaWord, probe.tokens,
              {"xA", "xI", "xU", "xE", "xO", "xYA", "xYU", "xYO", "xWA"})

\* ki, small tsu, ki, small ya: the small tsu is a token of its own and the
\* glide is fused
SmallTsuAlone ==
  /\ probe.kind = "tokens"
  /\ probe.kanaWord = <<"KI", "xTU", "KI", "xYA">>
  /\ probe.tokens = <<<<"KI">>, <<"xTU">>, <<"KI", "xYA">>>>

\* the tokens one after the other
RECURSIVE Concat(_)
Concat(tokens) == IF tokens = <<>> THEN <<>> ELSE Head(tokens) \o Concat(Tail(tokens))

\* C25: for every input string, with unknown characters, a small character
\* in front or small characters in a row, tokenize returns a list of tokens
\* of length 1 or 2 whose concatenation is the input string
TokenizeRoundTrip ==
  probe.kind = "tokens" =>
    /\ \A k \in 1..Len(probe.tokens) : Len(probe.tokens[k]) \in {1, 2}
    /\ Concat(probe.tokens) = probe.kanaWord

\* two glides in front, an unknown character and a small tsu at the end
SmallInFrontRoundTrip ==
  /\ probe.kind = "tokens"
  /\ probe.kanaWord = <<"xYA", "xYA", "?", "xTU">>
  /\ probe.tokens = <<<<"xYA", "xYA">>, <<"?">>, <<"xTU">>>>
  /\ Concat(probe.tokens) = probe.kanaWord

\* getValidPatterns gives a pattern at every position of the word
SpellableEverywhere(kana) ==
  LET tokens == tokenize(kana)
  IN  /\ tokens # <<>>
      /\ \A i \in 1..Len(tokens) :
           getValidPatterns(tokens[i], TokenAt(tokens, i + 1)) # <<>>

\* C26: for every word parseWords accepts and every position i of its
\* token list, getValidPatterns(tokens[i], tokens[i + 1]) is a non-empty
\* list
MatcherTotality ==
  probe.kind = "parsed" =>
    \A w \in 1..Len(probe.words) : SpellableEverywhere(probe.words[w].kana)

\* an accepted word of a small tsu before a fused token
GeminateWordAccepted ==
  /\ probe.kind = "parsed"
  /\ probe.words = <<[disp |-> <<"w">>, kana |-> <<"xTU", "KI", "xYA">>]>>
  /\ probe.errors = <<>>
  /\ SpellableEverywhere(<<"xTU", "KI", "xYA">>)

\* the places of the commas of a line, and its field n (1 or 2)
Commas(line) == {i \in 1..Len(line) : line[i] = ","}

FieldOf(line, n) ==
  LET before == {i \in Commas(line) : Cardinality({j \in Commas(line) : j < i}) = n - 2}
      after == {i \in Commas(line) : Cardinality({j \in Commas(line) : j < i}) = n - 1}
      from == IF before = {} THEN 1 ELSE (CHOOSE i \in before : TRUE) + 1
      to == IF after = {} THEN Len(line) ELSE (CHOOSE i \in after : TRUE) - 1
  IN  SubSeq(line, from, to)

\* what the claim says becomes of line lineNo (1-based) of a text
LineOutcome(line, lineNo) ==
  IF \A i \in 1..Len(line) : line[i] \in {" ", "CR"} THEN "blank"
  ELSE IF /\ lineNo = 1
          /\ Cardinality(Commas(line)) >= 1
          /\ HasLatin(FieldOf(line, 1)) /\ HasLatin(FieldOf(line, 2))
       THEN "header"
  ELSE IF Cardinality(Commas(line)) < 1 THEN "missing columns"
  ELSE IF Trim(FieldOf(line, 1)) = <<>> \/ Trim(FieldOf(line, 2)) = <<>>
       THEN "empty display or kana"
  ELSE IF \E k \in 1..Len(tokenize(Trim(FieldOf(line, 2)))) :
            tokenize(Trim(FieldOf(line, 2)))[k] \notin DOMAIN KanaTable
       THEN "invalid kana"
  ELSE "word"

\* C30: parseWords handles every non-blank line on its own: the line is the
\* skipped header (the first line only, both of its first two fields with a
\* Latin letter), or gives one accepted word, or one error with its 1-based
\* line number (fewer than 2 fields, an empty field, a kana field with a
\* token the table lacks); the words and the errors are those of the lines
\* in order, whatever the other lines are
LinesHandledAlone ==
  (probe.kind = "parsed") =>
    LET lines == probe.lines
        numbers == [k \in 1..Len(lines) |-> k]
        accepted == SelectSeq(numbers, LAMBDA k : LineOutcome(lines[k], k) = "word")
        refused == SelectSeq(numbers, LAMBDA k :
                     LineOutcome(lines[k], k) \in
                       {"missing columns", "empty display or kana", "invalid kana"})
    IN  /\ Len(probe.words) = Len(accepted)
        /\ \A j \in 1..Len(accepted) :
             probe.words[j] = [disp |-> Trim(FieldOf(lines[accepted[j]], 1)),
                               kana |-> Trim(FieldOf(lines[accepted[j]], 2))]
        /\ Len(probe.errors) = Len(refused)
        /\ \A j \in 1..Len(refused) :
             /\ probe.errors[j].lineNo = refused[j]
             /\ probe.errors[j].message = LineOutcome(lines[refused[j]], refused[j])

\* a line without a comma, a word, and a line whose kana has the
\* long-vowel mark: the word is accepted, the errors name lines 1 and 3
WordBetweenBadLines ==
  /\ probe.kind = "parsed"
  /\ probe.lines = <<<<"n">>, <<"n", ",", "NE", "KO">>, <<"n", ",", "NE", "CHOON">>>>
  /\ probe.words = <<[disp |-> <<"n">>, kana |-> <<"NE", "KO">>]>>
  /\ Len(probe.errors) = 2
  /\ probe.errors[1].lineNo = 1 /\ probe.errors[1].message = "missing columns"
  /\ probe.errors[2].lineNo = 3 /\ probe.errors[2].message = "invalid kana"

\* the pool words whose number of characters is in min..max
WithLength(activeList, min, max) ==
  {i \in 1..Len(activeList) :
     Len(activeList[i].kana) >= min /\ Len(activeList[i].kana) <= max}

\* the band the claim gives for an elapsed time
StatedBand(elapsedTime) ==
  CASE elapsedTime < 20 -> <<1, 3>>
    [] elapsedTime >= 20 /\ elapsedTime < 40 -> <<3, 5>>
    [] elapsedTime >= 40 /\ elapsedTime < 60 -> <<4, 6>>
    [] elapsedTime >= 60 -> <<5, 20>>

\* C27: getNextWordSeeded chooses the band from elapsedTime alone (below 20:
\* lengths 1 to 3, from 20 and below 40: 3 to 5, from 40 and below 60: 4 to
\* 6, 60 and above: 5 to 20), and whenever a pool word has a length inside
\* the band, the returned word is one of those pool words
BandSelection ==
  probe.kind = "drawn" =>
    LET band == StatedBand(probe.elapsedTime)
        inside == WithLength(probe.activeList, band[1], band[2])
    IN  inside # {} => \E i \in inside : probe.word = probe.activeList[i]

\* at 20 seconds a pool of a word of 2 and a word of 4 characters gives the
\* word of 4: the band is 3 to 5, no longer 1 to 3
SecondBandAtTwenty ==
  /\ probe.kind = "drawn"
  /\ probe.elapsedTime = 20
  /\ Len(probe.activeList) = 2
  /\ probe.activeList[1].disp = "neko" /\ probe.activeList[2].disp = "tamanegi"
  /\ probe.word.disp = "tamanegi"

\* C28: when no pool word falls in the band, getNextWordSeeded returns a
\* member of the full pool; when the pool is empty it returns the sentinel
\* word {disp: "NO DATA", kana: "nodata"}, for every elapsed time
GracefulDegradation ==
  probe.kind = "drawn" =>
    LET band == Band(probe.elapsedTime)
    IN  /\ (probe.activeList # <<>>
             /\ WithLength(probe.activeList, band.min, band.max) = {}) =>
             \E i \in 1..Len(probe.activeList) : probe.word = probe.activeList[i]
        /\ probe.activeList = <<>> =>
             probe.word = [disp |-> "NO DATA", kana |-> <<"n", "o", "d", "a", "t", "a">>]

\* a pool of one word of 21 characters, outside every band: the word is
\* returned
WordOutsideEveryBand ==
  /\ probe.kind = "drawn"
  /\ Len(probe.activeList) = 1
  /\ Len(probe.activeList[1].kana) = 21
  /\ probe.word = probe.activeList[1]

\* the empty pool gives the sentinel
EmptyPoolSentinel ==
  /\ probe.kind = "drawn"
  /\ probe.activeList = <<>>
  /\ probe.elapsedTime = 60
  /\ probe.word.disp = "NO DATA"

\* the returned word is in the band by this measure whenever a pool word is
BandedBy(Measure(_)) ==
  probe.kind = "drawn" =>
    LET band == Band(probe.elapsedTime)
        Inside(w) == Measure(w.kana) >= band.min /\ Measure(w.kana) <= band.max
    IN  (\E i \in 1..Len(probe.activeList) : Inside(probe.activeList[i])) =>
          Inside(probe.word)

\* the number of tokens of a kana string
TokenCount(kana) == Len(tokenize(kana))

\* the number of characters of a kana string
CharacterCount(kana) == Len(kana)

\* C29 (as stated): the scheduler measures a word's length for the band as
\* the number of tokens of tokenize(kana), a fused token counting as one.
\* The filter compares kana.length, the number of characters.
BandByTokens == BandedBy(TokenCount)

\* what the filter does: it measures a word's length for the band as
\* kana.length, the number of characters; a fused token counts as two
BandByCharacters == BandedBy(CharacterCount)

\* a pool of kyakyu (4 characters, 2 tokens) and tamanegi (4 and 4) in the
\* first seconds: neither has 1 to 3 characters, the full pool is drawn
\* from and tamanegi is returned although kyakyu has 2 tokens
FusedWordNotPreferred ==
  /\ probe.kind = "drawn"
  /\ probe.elapsedTime = 0
  /\ Len(probe.activeList) = 2
  /\ probe.activeList[1].disp = "kyakyu" /\ probe.activeList[2].disp = "tamanegi"
  /\ probe.word.disp = "tamanegi"


(***************************************************************************)
(* The life of an issued session.                                          *)
(***************************************************************************)
\* the rows that the step removes from game_sessions
Removed == game_sessions \ game_sessions'

\* the step is one of getGameToken
TokenStep == issued' # issued

\* the step is the DELETE of a handler whose body names gameId
DeleteStepFor(gameId) ==
  \E r \in Reqs :
    req[r].pc = "delete" /\ req'[r] # req[r] /\ req[r].sub.gameId = gameId

\* C31: a session leaves the table only by the cleanup of getGameToken, and
\* then its expires_at is earlier than the time of the cleanup, or by the
\* DELETE of a handler whose body names its id; a session that has not
\* expired is never removed by the cleanup or by a submission that names
\* another id.
SessionsStayConsumable ==
  [][\A s \in Removed :
       IF TokenStep THEN s.expires_at < now ELSE DeleteStepFor(s.id)]_vars

\* the cleanup has removed a session that no handler was ever sent, while a
\* later session that has not expired is still in the table
SweptUnsubmitted ==
  /\ Len(issued) = MaxGames
  /\ \A r \in Reqs : req[r].pc = "idle"
  /\ ~\E s \in game_sessions : s.id = 1
  /\ \E s \in game_sessions : s.id = MaxGames /\ ~(s.expires_at < now)


\* a step that counts a wrong input
RejectStep == game'.wrongKeys = game.wrongKeys + 1

\* a step of the running game that completes the current word
CompletionStep ==
  /\ game.isPlaying
  /\ Len(game'.playedWords) = Len(game.playedWords) + 1

\* C32: a step that counts a wrong input sets currentCombo to 0, sets
\* hasErrorInWord, lowers timeLeft by 1 but not below 0, and leaves
\* tokenIndex, inputBuffer, score and correctKeys as they were; the mark
\* stays while the word is the current one; and the step that completes a
\* marked word adds the combo score alone to score and leaves timeLeft
RejectedKeystroke ==
  [][/\ RejectStep =>
          /\ game'.currentCombo = 0
          /\ game'.hasErrorInWord
          /\ game'.timeLeft = (IF game.timeLeft > 1 THEN game.timeLeft - 1 ELSE 0)
          /\ game'.tokenIndex = game.tokenIndex
          /\ game'.inputBuffer = game.inputBuffer
          /\ game'.score = game.score
          /\ game'.correctKeys = game.correctKeys
     /\ (game.hasErrorInWord /\ game'.playedWords = game.playedWords) =>
          game'.hasErrorInWord
     /\ (CompletionStep /\ game.hasErrorInWord) =>
          /\ game'.score = game.score + ComboScore(Len(game.currentWord.kana),
                                                    game.currentCombo + 1)
          /\ game'.timeLeft = game.timeLeft]_vars

\* a word with a wrong input in it was completed: the score of the one
\* completed word is below the perfect bonus
ErrorWordCompleted ==
  /\ Len(game.playedWords) = 2
  /\ game.wrongKeys > 0
  /\ game.score > 0
  /\ game.score < CONFIG.PERFECT_SCORE_BONUS


\* a step in which timeLeft of the running game becomes 0
ExpiryStep == game.isPlaying /\ game'.timeLeft = 0

\* a step that is the beginning of start(): resetState
StartStep == game'.isPreparing /\ ~game.isPreparing

\* C33: the step that brings timeLeft of the running game to 0, a tick or
\* the penalty of a wrong input, ends the game: isPlaying is false, the timer
\* is cleared and gameStats is set, to the score and the wrong inputs of
\* that moment; gameStats is set by no other step; and from then on every
\* step that is not the beginning of start() leaves gameStats, score,
\* currentCombo, correctKeys, wrongKeys, keyLog and playedWords as they are
FrozenAtExpiry ==
  [][/\ ExpiryStep =>
          /\ ~game'.isPlaying
          /\ ~game'.timerId
          /\ ~game.gameStats.set
          /\ game'.gameStats = [set |-> TRUE, score |-> game'.score,
                                wrong |-> game'.wrongKeys]
     /\ (game'.gameStats.set /\ ~game.gameStats.set) => ExpiryStep
     /\ (game.gameStats.set /\ ~StartStep) =>
          /\ game'.gameStats = game.gameStats
          /\ game'.score = game.score
          /\ game'.currentCombo = game.currentCombo
          /\ game'.correctKeys = game.correctKeys
          /\ game'.wrongKeys = game.wrongKeys
          /\ game'.keyLog = game.keyLog
          /\ game'.playedWords = game.playedWords
          /\ ~game'.isPlaying]_vars

\* the game ended with the penalty of a wrong key, the last entry of keyLog
\* pressed after the last tick, and its score was sent
PenaltyExpirySent ==
  /\ game.gameStats.set
  /\ game.timeLeft = 0
  /\ game.inputMode = "halfwidth"
  /\ Len(game.keyLog) > 0
  /\ game.keyLog[Len(game.keyLog)].time = game.elapsed * 1000
  /\ game.awaiting # 0


\* the keys of the pattern of the probe are all accepted, the first ones
\* extend the buffer at the token and the last one completes the token
TypedThrough ==
  \A k \in 1..Len(probe.pattern) :
    /\ probe.after[k].wrongKeys = 0
    /\ IF k < Len(probe.pattern)
       THEN /\ ~probe.after[k].wordDone
            /\ probe.after[k].tokenIndex = probe.tokenIndex
            /\ probe.after[k].inputBuffer = SubSeq(probe.pattern, 1, k)
       ELSE /\ probe.after[k].inputBuffer = <<>>
            /\ IF probe.tokenIndex + 1 = Len(probe.tokens)
               THEN probe.after[k].wordDone
               ELSE ~probe.after[k].wordDone
                      /\ probe.after[k].tokenIndex = probe.tokenIndex + 1

\* C34: every pattern getValidPatterns lists for a token of a word, typed
\* key by key from an empty buffer at that token, is accepted key by key and
\* completes the token on its last character
PatternsTypable == probe.kind = "pattern" => TypedThrough


\* the patterns of the token of the probe
ProbePatterns ==
  getValidPatterns(TokenAt(probe.tokens, probe.tokenIndex + 1),
                   TokenAt(probe.tokens, probe.tokenIndex + 2))

\* buffer is a pattern of the token of the probe that completes it
Completes(buffer) ==
  /\ Includes(ProbePatterns, buffer)
  /\ ~isN_Ambiguity(TokenAt(probe.tokens, probe.tokenIndex + 1), buffer,
                    TokenAt(probe.tokens, probe.tokenIndex + 2))

\* the patterns that cannot be typed through: one with a shorter pattern at
\* its beginning that completes the token before it, as n n where a single n
\* completes the moraic n and t s u where t completes the small tsu, and the
\* single n where it is held back
ShadowedPattern ==
  \/ \E k \in 1..(Len(probe.pattern) - 1) : Completes(SubSeq(probe.pattern, 1, k))
  \/ ~Completes(probe.pattern)

\* what holds of the patterns: all of them are typed through but the
\* shadowed ones
TypableButShadowed ==
  probe.kind = "pattern" => (TypedThrough <=> ~ShadowedPattern)

\* the first pattern n n of the moraic n before a consonant: the first n
\* completes the token and the second n is a wrong key of the next token
SecondNRejected ==
  /\ probe.kind = "pattern"
  /\ probe.first
  /\ probe.tokens = <<<<"SA">>, <<"NN">>, <<"PO">>>>
  /\ probe.tokenIndex = 1
  /\ probe.after[1].tokenIndex = 2
  /\ probe.after[2].wrongKeys = 1


\* tokenIndex is inside the word, and buffer is empty or the beginning of a
\* longer pattern of the token at tokenIndex
MatcherOk(tokens, tokenIndex, buffer) ==
  /\ tokenIndex \in 0..Len(tokens)
  /\ \/ buffer = <<>>
     \/ /\ tokenIndex < Len(tokens)
        /\ \E p \in 1..Len(getValidPatterns(TokenAt(tokens, tokenIndex + 1),
                                             TokenAt(tokens, tokenIndex + 2))) :
             LET pattern == getValidPatterns(TokenAt(tokens, tokenIndex + 1),
                                             TokenAt(tokens, tokenIndex + 2))[p]
             IN  Len(pattern) > Len(buffer) /\ StartsWith(pattern, buffer)

\* what a side of the probe holds after the key
MatcherOkAfter(side) ==
  IF side.wordDone THEN side.inputBuffer = <<>>
  ELSE MatcherOk(probe.tokens, side.tokenIndex, side.inputBuffer)

\* C35: from a matcher state of the engine or of the replay, with tokenIndex
\* below the number of tokens and inputBuffer empty or the beginning of a
\* longer pattern of the current token, every key leads to such a state
\* again, with tokenIndex at most the number of tokens (or to the next
\* word); some key is accepted by processInput and by the replay; and
\* accepted keys complete the word on both sides without a wrong key
MatcherInvariant ==
  (probe.kind \in {"match", "flick"}
     /\ MatcherOk(probe.tokens, probe.tokenIndex, probe.buffer)) =>
    /\ MatcherOkAfter(probe.client)
    /\ MatcherOkAfter(probe.server)
    /\ \E key \in ExtendingKeys(probe.tokens, probe.tokenIndex, probe.buffer) :
         /\ processInput(EngineAt(probe.w, probe.tokenIndex, probe.buffer),
                         key).correctKeys = 1
         /\ ServerKeyStep(ReplayAt(probe.tokenIndex, probe.buffer), probe.tokens,
                          key).correctKeys = 1
    /\ LET g == FinishWord(EngineAt(probe.w, probe.tokenIndex, probe.buffer),
                           MaxWordKeys)
           st == FinishReplay(ReplayAt(probe.tokenIndex, probe.buffer),
                              probe.tokens, MaxWordKeys)
       IN  /\ g.playedWords # <<>> /\ g.wrongKeys = 0
           /\ st.tokenIndex = Len(probe.tokens) /\ ~st.hasErrorInWord

\* the single n of the moraic n is held in the buffer before a vowel, and
\* the vowel typed next is a wrong key; the buffer is still the beginning of
\* n n
HeldNThenVowel ==
  /\ probe.kind = "match"
  /\ probe.tokens = <<<<"KI">>, <<"NN">>, <<"E">>, <<"NN">>>>
  /\ probe.tokenIndex = 1
  /\ probe.buffer = <<"n">> /\ probe.key = <<"e">>
  /\ probe.client.rejected /\ probe.server.rejected
  /\ probe.client.inputBuffer = <<"n">> /\ probe.server.inputBuffer = <<"n">>


\* C36: getNextWordSeeded on a pool that is not empty leaves the generator
\* one call further, whatever the band and whether or not the whole list is
\* fallen back on; and in a game, gamePRNG after i calls of nextWord is the
\* seed's generator after i calls, and so is the generator of the replay
\* after the i-th turn of its loop over playedWords
OneDrawPerWord ==
  /\ (probe.kind = "drawn" /\ probe.activeList # <<>>) =>
        probe.prng = PrngAdvance(Word32(probe.seed))
  /\ probe.kind = "generators" =>
        \A i \in 1..Len(probe.starts) :
          /\ probe.played[i] = i
          /\ probe.client[i] = PrngAfter(Word32(probe.seed), i)
          /\ probe.server[i].reached => probe.server[i].prng = probe.client[i]

\* a game of MaxPlayed words that start in different bands, replayed to its
\* last word
ReplayedThroughBands ==
  /\ probe.kind = "generators"
  /\ Len(probe.starts) = MaxPlayed
  /\ probe.starts[1] < 20
  /\ probe.starts[MaxPlayed] >= 60
  /\ probe.server[MaxPlayed].reached


\* C37: timeLeft is 60 after construction and after resetState; from a
\* running engine with 1 to 90 seconds left, a tick and a wrong input leave
\* one second less and end the game when that is 0, a word completed
\* without an error leaves max(1, floor(length / 2)) seconds more but not
\* more than 90, a word with an error leaves timeLeft alone; so timeLeft
\* stays between 0 and 90 and the engine with 0 seconds left is not playing
TimeLeftBounds ==
  /\ NewGame.timeLeft = CONFIG.DEFAULT_TIME /\ ~NewGame.isPlaying
  /\ probe.kind = "clock" =>
       /\ probe.after.timeLeft \in 0..CONFIG.MAX_TIME
       /\ probe.after.timeLeft = 0 => ~probe.after.isPlaying /\ ~probe.after.timerId
       /\ probe.after.timeLeft =
            CASE probe.op \in {"tick", "error"} -> probe.timeLeft - 1
              [] probe.op = "perfect" ->
                   IF probe.timeLeft + TimeBonus(probe.wordLength) < CONFIG.MAX_TIME
                   THEN probe.timeLeft + TimeBonus(probe.wordLength)
                   ELSE CONFIG.MAX_TIME
              [] probe.op = "flawed" -> probe.timeLeft
              [] OTHER -> CONFIG.DEFAULT_TIME
       /\ probe.op \in {"perfect", "flawed"} => probe.after.words = 1

\* a word of 6 kana completed without an error with 89 seconds left: the
\* bonus of 3 seconds stops at 90
BonusAtCeiling ==
  /\ probe.kind = "clock"
  /\ probe.op = "perfect"
  /\ probe.timeLeft = 89
  /\ probe.wordLength = 6
  /\ probe.after.timeLeft = 90


\* a step of the timer of the running game
TickStep == game.isPlaying /\ game'.elapsed = game.elapsed + 1

\* a step that completes a word without an error
PerfectStep == CompletionStep /\ ~game.hasErrorInWord

\* C38: with a timer that keeps firing the running game ends; every tick of
\* the running game leaves one second less and ends the game at 0, and
\* timeLeft of the running game is raised by no step but the completion of a
\* word without an error, so without such words the game ends after at most
\* timeLeft ticks
GameEnds ==
  /\ game.isPlaying ~> (~game.isPlaying /\ game.gameStats.set /\ game.timeLeft = 0)
  /\ [][/\ TickStep =>
            /\ game'.timeLeft = game.timeLeft - 1
            /\ game'.timeLeft = 0 => ~game'.isPlaying
       /\ (game.isPlaying /\ game'.timeLeft > game.timeLeft) => PerfectStep]_vars

\* the game ended by its timer alone, no key pressed: 60 ticks
EndedByTicksAlone ==
  /\ game.gameStats.set
  /\ game.keyLog = <<>>
  /\ game.wrongKeys = 0
  /\ game.timeLeft = 0
  /\ game.elapsed >= CONFIG.DEFAULT_TIME


\* C39: every step that counts a wrong input appends an entry to keyLog
ErrorsAreLogged ==
  [][RejectStep => Len(game'.keyLog) = Len(game.keyLog) + 1]_vars

\* what holds of the wrong inputs: those of the halfwidth mode are logged,
\* with the key that was pressed
HalfwidthErrorsLogged ==
  [][(RejectStep /\ game.inputMode = "halfwidth") =>
       /\ Len(game'.keyLog) = Len(game.keyLog) + 1
       /\ SubSeq(game'.keyLog, 1, Len(game.keyLog)) = game.keyLog]_vars

\* a wrong input is counted and the word is marked, and keyLog is empty
UnloggedError ==
  /\ game.isPlaying
  /\ game.wrongKeys = 1
  /\ game.hasErrorInWord
  /\ game.keyLog = <<>>


\* the score of a flick game with an unlogged wrong input and a completed
\* word was refused by the replay
FlickGameRefused ==
  /\ game.inputMode = "flick"
  /\ game.message = "VERIFICATION FAILED"
  /\ game.wrongKeys > 0
  /\ Len(game.keyLog) = game.correctKeys
  /\ \E r \in Reqs : /\ req[r].result.reason = "score mismatch"
                      /\ req[r].verdict.serverScore > game.score
                      /\ game.score > 0


(***************************************************************************)
(* The gameId of the running game and the responses of earlier games.      *)
(***************************************************************************)
\* the game the last token was received for has its call of submitScore
\* ahead of it or waiting for the response
OwnCallOpen ==
  /\ game.tokens > 0
  /\ issued[game.tokens].success
  /\ ~game.isPreparing
  /\ game.isPlaying \/ EffectDue \/ game.awaiting # 0

\* C40: from the receipt of a game's token until its own submitScore call
\* completes, currentGameId is the gameId issued for that game
CurrentGameIdKept == OwnCallOpen => game.currentGameId = issued[game.tokens].gameId

\* the response of the first game has cleared the gameId of the second
LateResponseCleared ==
  /\ game.tokens = 2
  /\ game.isPlaying
  /\ game.currentGameId = 0
  /\ game.stale = {}

\* the second game is over, its gameStats are set, and nothing was sent for
\* it and nothing will be
NeverSubmitted ==
  /\ game.tokens = 2
  /\ game.gameStats.set
  /\ game.message = "VERIFYING SCORE"
  /\ game.currentGameId = 0
  /\ game.awaiting = 0
  /\ game.stale = {}
  /\ \A r \in Reqs : req[r].pc # "idle" => req[r].sub.gameId # 2

\* no gameId is sent twice
SentOnce ==
  \A r1, r2 \in Reqs :
    (r1 # r2 /\ req[r1].pc # "idle" /\ req[r2].pc # "idle")
      => req[r1].sub.gameId # req[r2].sub.gameId
====
